---- MODULE Spec2Model ----
(***************************************************************************)
(* Verification model of the satellite QUIC proxy.                         *)
(*                                                                         *)
(*  - the software connection engine (proxy/src/quic_handler.cpp) and the  *)
(*    receive loop that owns the connection table                          *)
(*    (proxy/src/quic_proxy.cpp);                                          *)
(*  - the accelerator's packet processor                                   *)
(*    (fpga/src/quic_packet_processor.vhd): stream table, packet tracker;  *)
(*  - the offload layer (proxy/src/fpga_interface.cpp): its compression    *)
(*    container, and a request to the device with its register lock and    *)
(*    its deadline;                                                        *)
(*  - the receive thread and the control thread at the connection table's  *)
(*    mutex, and stop() beside the receive thread                          *)
(*    (proxy/src/quic_proxy.cpp);                                          *)
(*  - the DMA buffers a request takes (interface/src/buffer_manager.cpp)   *)
(*    and the engines a transfer takes (the DMA controller);               *)
(*  - the state machine of the crypto module (fpga/src/quic_crypto.vhd)    *)
(*    with its AES and GCM cores.                                          *)
(*                                                                         *)
(* Byte buffers are sequences of naturals 0..255, addressed with the       *)
(* zero-based offsets the code uses (At, Slice).  Time points of           *)
(* std::chrono::steady_clock are kept as ages in milliseconds relative to  *)
(* now(), saturated just above the threshold they are compared with.       *)
(***************************************************************************)
EXTENDS Integers, Sequences, FiniteSets, TLC

VARIABLES
    \* ---- QUICProxy (quic_proxy.h) and its receive thread
    m_connections,        \* std::vector<std::unique_ptr<QUICHandler>>: handler records
    m_running,            \* std::atomic<bool>
    m_accelerationEnabled,\* QUICProxy::m_accelerationEnabled
    m_activeConnections,  \* statistics counter
    loop_pc,              \* position of acceptLoop: "top", "select", "exited"
    cleanupAge,           \* age of the function-static lastCleanupTime
    fpga,                 \* FPGAInterface: [connected, simulation]
    wire,                 \* datagrams the last step of the receive loop handed to sendto()
    resends,              \* observer: how often each client's packets were resent
    reaped,               \* observer: client keys removed by the last cleanup call
    received,             \* observer: the sender and bytes of the last recvfrom()
    \* ---- quic_packet_processor.vhd
    streams,              \* stream_array: the slots 0 .. stream_count-1, the ones written
    stream_count,
    current_stream_id,
    packet_tracker,       \* packet_tracking_array: the slots written so far
    packet_index,
    out_buf_wrptr,
    hw_time,              \* current_time, milliseconds
    hw_out,               \* what the last operation put on the output interface
    hw_op,                \* observer: the last operation and its input
    \* ---- quic_crypto.vhd
    crypto,               \* the registers of quic_crypto and its two cores
    \* ---- codec and compression harness
    job,                  \* the pure-function harness: inputs and results
    \* ---- threads and the mutexes they meet at
    m_regMutex,           \* FPGAInterface::m_regMutex: the set of threads holding it
    m_connectionsMutex,   \* QUICProxy::m_connectionsMutex: the set of threads holding it
    threads,              \* position and locals of each thread beside the receive thread
    socket,               \* datagrams in the socket's receive queue, oldest first
    processed             \* observer: arrival numbers handed to processIncomingPacket

vars == << m_connections, m_running, m_accelerationEnabled, m_activeConnections,
           loop_pc, cleanupAge, fpga, wire, resends, reaped, received,
           streams, stream_count, current_stream_id, packet_tracker, packet_index,
           out_buf_wrptr, hw_time, hw_out, hw_op, crypto, job,
           m_regMutex, m_connectionsMutex, threads, socket, processed >>

swVars == << m_connections, m_running, m_accelerationEnabled, m_activeConnections,
             loop_pc, cleanupAge, fpga, wire, resends, reaped, received >>

thrVars == << m_regMutex, m_connectionsMutex, threads, socket, processed >>

hwVars == << streams, stream_count, current_stream_id, packet_tracker, packet_index,
             out_buf_wrptr, hw_time, hw_out, hw_op, crypto >>

-----------------------------------------------------------------------------
(* Bytes and buffers *)

At(data, off) == data[off + 1]
Slice(data, from, to) == SubSeq(data, from + 1, to)

\* (n >> (8*k)) & 0xFF
ByteOf(n, k) == (n \div (256 ^ k)) % 256

\* four bytes, most significant first
BE32(n) == << ByteOf(n, 3), ByteOf(n, 2), ByteOf(n, 1), ByteOf(n, 0) >>
\* four bytes, least significant first
LE32(n) == << ByteOf(n, 0), ByteOf(n, 1), ByteOf(n, 2), ByteOf(n, 3) >>
LE16(n) == << ByteOf(n, 0), ByteOf(n, 1) >>

\* (d[o] << 24) | (d[o+1] << 16) | (d[o+2] << 8) | d[o+3]
ReadBE32(data, off) ==
    At(data, off) * 16777216 + At(data, off + 1) * 65536
      + At(data, off + 2) * 256 + At(data, off + 3)

\* uint32_t increment.  The wrap to 0 after 2^32 - 1 is outside the model:
\* every counter stays below the bounds of the specifications, far below the
\* 2^31 - 1 that TLC's integers reach.
Inc32(n) == n + 1

Repeat(b, n) == [i \in 1..n |-> b]

-----------------------------------------------------------------------------
(* quic_handler.cpp: constants *)

QUIC_VERSION_1 == 1
IDLE_TIMEOUT_MS == 30000
RETRANSMIT_TIMEOUT_MS == 500
\* declared in the source and read nowhere in it
MIN_INITIAL_SIZE == 1200
\* const size_t DCID_LEN = 8 in the short-header branch of parsePacket
DCID_LEN == 8
\* cleanupInactiveConnections runs at most every 5 seconds
CLEANUP_PERIOD_S == 5

\* header.version of a short-header packet is never assigned by parsePacket
NoVersion == "unset"

-----------------------------------------------------------------------------
(* QUICHandler::parsePacket *)

ParseFail == [ ok |-> FALSE ]

LongType(firstByte) ==
    LET packetType == (firstByte % 64) \div 16      \* (firstByte & 0x30) >> 4
    IN  CASE packetType = 0 -> "INITIAL"
          [] packetType = 1 -> "ZERO_RTT"
          [] packetType = 2 -> "HANDSHAKE"
          [] OTHER          -> "RETRY"

\* the tail shared by all long headers: Length byte, 4-byte packet number, payload
ParseLongTail(data, hdr, off0) ==
    LET length == Len(data) IN
    IF off0 + 1 > length THEN ParseFail
    ELSE LET payloadLen == At(data, off0)
             off1 == off0 + 1
         IN  IF payloadLen > 63 THEN ParseFail
             ELSE IF off1 + 4 > length THEN ParseFail
             ELSE LET off2 == off1 + 4 IN
                  [ ok |-> TRUE,
                    header |-> [ hdr EXCEPT !.length = payloadLen,
                                            !.packetNumber = ReadBE32(data, off1) ],
                    payload |-> IF off2 < length THEN Slice(data, off2, length)
                                ELSE << >> ]

ParseLongToken(data, hdr, off0) ==
    LET length == Len(data) IN
    IF hdr.type # "INITIAL" THEN ParseLongTail(data, hdr, off0)
    ELSE IF off0 + 1 > length THEN ParseFail
    ELSE LET tokenLen == At(data, off0)
             off1 == off0 + 1
         IN  IF tokenLen > 63 THEN ParseFail
             ELSE IF off1 + tokenLen > length THEN ParseFail
             ELSE ParseLongTail(data,
                                [ hdr EXCEPT !.token = Slice(data, off1, off1 + tokenLen) ],
                                off1 + tokenLen)

ParseLong(data) ==
    LET length == Len(data)
        firstByte == At(data, 0)
    IN
    IF 1 + 4 > length THEN ParseFail
    ELSE
    LET version == ReadBE32(data, 1)
        type == IF version = 0 THEN "VERSION_NEGOTIATION" ELSE LongType(firstByte)
    IN
    IF 5 + 1 > length THEN ParseFail
    ELSE
    LET destConnIDLen == At(data, 5) IN
    IF 6 + destConnIDLen > length THEN ParseFail
    ELSE
    LET offS == 6 + destConnIDLen IN
    IF offS + 1 > length THEN ParseFail
    ELSE
    LET srcConnIDLen == At(data, offS) IN
    IF offS + 1 + srcConnIDLen > length THEN ParseFail
    ELSE ParseLongToken(data,
            [ type |-> type, version |-> version,
              destConnID |-> Slice(data, 6, 6 + destConnIDLen),
              srcConnID |-> Slice(data, offS + 1, offS + 1 + srcConnIDLen),
              token |-> << >>, length |-> 0, packetNumber |-> 0 ],
            offS + 1 + srcConnIDLen)

ParseShort(data) ==
    LET length == Len(data) IN
    IF 1 + DCID_LEN > length THEN ParseFail
    ELSE IF 1 + DCID_LEN + 4 > length THEN ParseFail
    ELSE LET off == 1 + DCID_LEN + 4 IN
         [ ok |-> TRUE,
           header |-> [ type |-> "ONE_RTT", version |-> NoVersion,
                        destConnID |-> Slice(data, 1, 1 + DCID_LEN),
                        srcConnID |-> << >>, token |-> << >>,
                        length |-> length - off,
                        packetNumber |-> ReadBE32(data, 1 + DCID_LEN) ],
           payload |-> IF off < length THEN Slice(data, off, length) ELSE << >> ]

ParsePacket(data) ==
    IF Len(data) < 4 THEN ParseFail
    ELSE IF At(data, 0) >= 128 THEN ParseLong(data)     \* (firstByte & 0x80) != 0
    ELSE ParseShort(data)

-----------------------------------------------------------------------------
(* FPGAInterface::executePacketOperation, as the engine sees it *)

\* connectionID >> (i*8) for i = 0..7: m_connectionID was built most significant
\* byte first from m_srcConnID, so these are its bytes in reverse order
ConnIDBytesLE(srcConnID) == [ i \in 1..Len(srcConnID) |-> srcConnID[Len(srcConnID) + 1 - i] ]

SimulatePacketOperation(operationType, inputData, srcConnID, packetNumber) ==
    CASE operationType = "PACKET_FRAMING" ->
            << 192 >> \o ConnIDBytesLE(srcConnID) \o LE32(packetNumber)
              \o << 8, 0 >> \o LE16(Len(inputData) % 65536) \o inputData
      [] operationType = "PACKET_ACK_PROCESSING" ->
            << 2 >> \o LE32(packetNumber) \o LE16(10) \o << 0, 0 >>
      [] OTHER ->
            << 192 >> \o ConnIDBytesLE(srcConnID) \o LE32(Inc32(packetNumber))
              \o << 8, 0 >> \o LE16(Len(inputData) % 65536) \o inputData

\* Calls the accelerator may fail on (register fault, STATUS_ERROR, 5 s timeout)
\* are answered by the oracle; the simulation path never fails.  A call with
\* empty input for a non-ACK operation is rejected before anything else.
\* One datagram makes at most three calls that reach the accelerator:
\* handleOneRttPacket's sendPacket of the echo, sendAckPacket's ACK processing
\* and the sendPacket it falls back to (the retransmission calls have empty
\* input).
FpgaCallsPerDatagram == 3

Oracles(h, f) ==
    IF f.simulation \/ ~(h.m_accelerationEnabled /\ f.connected)
    THEN { [ i \in 1..FpgaCallsPerDatagram |-> TRUE ] }     \* no call can fail, or none is made
    ELSE [ 1..FpgaCallsPerDatagram -> BOOLEAN ]

\* result of executePacketOperation: [success, data], and the context with the
\* call counted
ExecutePacketOperation(x, oracle, operationType, inputData, packetNumber) ==
    IF operationType # "PACKET_ACK_PROCESSING" /\ inputData = << >>
    THEN [ x |-> x, success |-> FALSE, data |-> << >> ]
    ELSE [ x |-> [ x EXCEPT !.calls = @ + 1 ],
           success |-> x.sim \/ oracle[x.calls + 1],
           data |-> SimulatePacketOperation(operationType, inputData,
                                            x.h.m_srcConnID, packetNumber) ]

-----------------------------------------------------------------------------
(* QUICHandler: state and sending *)

\* QUICHandler::QUICHandler
NewHandler(clientKey, accelerationEnabled, connID) ==
    [ m_clientKey |-> clientKey,
      m_accelerationEnabled |-> accelerationEnabled,
      m_connected |-> TRUE,
      m_nextPacketNumber |-> 0,
      m_srcConnID |-> connID,
      m_destConnID |-> << >>,
      m_sentPackets |-> << >>,
      m_receivedPackets |-> { },
      m_lastActivity |-> 0 ]          \* age of the time point

\* the running context of one call into the handler
Ctx(h, f) == [ h |-> h, out |-> << >>, resent |-> << >>, calls |-> 0,
               overflow |-> FALSE, ret |-> FALSE,
               sim |-> f.simulation, fpgaUp |-> f.connected ]

UseFpga(x) == x.h.m_accelerationEnabled /\ x.fpgaUp

\* RecordSent without m_nextPacketNumber++
RecordSentSameNumber(x, data) ==
    [ x EXCEPT
        !.out = Append(@, data),
        !.h.m_sentPackets = Append(@, [ packetNumber |-> x.h.m_nextPacketNumber,
                                         sentTime |-> 0,
                                         acknowledged |-> FALSE,
                                         packetData |-> data ]),
        !.ret = TRUE ]

\* sendPacket giving up when the accelerator fails
SendPacketNoFallback(x, oracle, type, payload) ==
    IF x.h.m_accelerationEnabled /\ x.fpgaUp
    THEN LET sent == x.sim \/ oracle[x.calls + 1]
             y == [ x EXCEPT !.calls = @ + 1 ]
         IN  IF payload # << >> /\ sent
             THEN [ y EXCEPT !.out = Append(@, << 192 >> \o payload),
                             !.h.m_sentPackets =
                                Append(@, [ packetNumber |-> x.h.m_nextPacketNumber,
                                            sentTime |-> 0,
                                            acknowledged |-> FALSE,
                                            packetData |-> << 192 >> \o payload ]),
                             !.h.m_nextPacketNumber = @ + 1,
                             !.ret = TRUE ]
             ELSE [ y EXCEPT !.ret = FALSE ]
    ELSE [ x EXCEPT !.ret = FALSE ]

\* m_sentPackets.push_back(packetInfo); m_nextPacketNumber++
RecordSent(x, data) ==
    [ x EXCEPT
        !.out = Append(@, data),
        !.h.m_sentPackets = Append(@, [ packetNumber |-> x.h.m_nextPacketNumber,
                                         sentTime |-> 0,
                                         acknowledged |-> FALSE,
                                         packetData |-> data ]),
        !.h.m_nextPacketNumber = Inc32(@),
        !.ret = TRUE ]

FirstByteOf(type) ==
    CASE type = "INITIAL"   -> 195      \* 0xC3
      [] type = "HANDSHAKE" -> 227      \* 0xE3
      [] type = "ZERO_RTT"  -> 211      \* 0xD3
      [] OTHER              -> 64       \* 0x40

\* the bytes the software path of sendPacket assembles
AssemblePacket(type, destConnID, srcConnID, packetNumber, payload) ==
    IF type # "ONE_RTT"
    THEN LET payloadLength == 4 + Len(payload) IN
         << FirstByteOf(type) >> \o BE32(QUIC_VERSION_1)
           \o << Len(destConnID) % 256 >> \o destConnID
           \o << Len(srcConnID) % 256 >> \o srcConnID
           \o (IF type = "INITIAL" THEN << 0 >> ELSE << >>)
           \o << ByteOf(payloadLength, 1), ByteOf(payloadLength, 0) >>
           \o BE32(packetNumber)
           \o payload
    ELSE << FirstByteOf(type) >> \o destConnID \o BE32(packetNumber) \o payload

Sendable(type) == type \in { "INITIAL", "HANDSHAKE", "ZERO_RTT", "ONE_RTT" }

\* software path of QUICHandler::sendPacket (after the accelerator attempt)
SendPacketSoftware(x, type, payload) ==
    IF ~Sendable(type) THEN [ x EXCEPT !.ret = FALSE ]
    ELSE LET packetData == AssemblePacket(type, x.h.m_destConnID, x.h.m_srcConnID,
                                          x.h.m_nextPacketNumber, payload)
             packetSize == Len(payload) + 64
         IN  RecordSent([ x EXCEPT !.overflow = @ \/ Len(packetData) > packetSize ],
                        packetData)

\* QUICHandler::sendPacket
SendPacket(x, oracle, type, payload) ==
    IF UseFpga(x)
    THEN LET r == ExecutePacketOperation(x, oracle, "PACKET_FRAMING", payload,
                                         x.h.m_nextPacketNumber)
         IN  IF r.success THEN RecordSent(r.x, r.data)
             ELSE SendPacketSoftware(r.x, type, payload)
    ELSE SendPacketSoftware(x, type, payload)

\* *std::max_element(...)
MaxElement(S) == CHOOSE m \in S : \A n \in S : n <= m

\* QUICHandler::sendAckPacket
SendAckPacket(x, oracle, packetNumbers) ==
    IF packetNumbers = { } THEN [ x EXCEPT !.ret = TRUE ]
    ELSE LET largestAcked == MaxElement(packetNumbers)
             ackFrame == << 2 >> \o BE32(largestAcked) \o << 0, 0, 0, 0 >>
         IN  IF UseFpga(x)
             THEN LET r == ExecutePacketOperation(x, oracle, "PACKET_ACK_PROCESSING",
                                                  ackFrame, largestAcked)
                  IN  IF r.success
                      THEN [ r.x EXCEPT !.out = Append(@, r.data), !.ret = TRUE ]
                      ELSE SendPacket(r.x, oracle, "ONE_RTT", ackFrame)
             ELSE SendPacket(x, oracle, "ONE_RTT", ackFrame)

-----------------------------------------------------------------------------
(* QUICHandler: inbound processing *)

\* index of the first tracked packet with this number, 0 when there is none
FirstIndexOf(sent, packetNumber) ==
    IF \E i \in 1..Len(sent) : sent[i].packetNumber = packetNumber
    THEN CHOOSE i \in 1..Len(sent) :
            /\ sent[i].packetNumber = packetNumber
            /\ \A j \in 1..(i - 1) : sent[j].packetNumber # packetNumber
    ELSE 0

\* the ACK case read as cumulative: every packet up to the number is marked
MarkAcknowledgedUpTo(sent, ackedPacketNum) ==
    [ i \in 1..Len(sent) |->
        IF sent[i].packetNumber <= ackedPacketNum
        THEN [ sent[i] EXCEPT !.acknowledged = TRUE ]
        ELSE sent[i] ]

\* the ACK case flipping the flag instead of setting it
MarkAcknowledgedFlip(sent, ackedPacketNum) ==
    LET i == FirstIndexOf(sent, ackedPacketNum) IN
    IF i = 0 THEN sent ELSE [ sent EXCEPT ![i].acknowledged = ~@ ]

\* the ACK case of processFrames: mark the first tracked packet whose number is
\* the frame's largest-acknowledged field
MarkAcknowledged(sent, ackedPacketNum) ==
    LET i == FirstIndexOf(sent, ackedPacketNum) IN
    IF i = 0 THEN sent ELSE [ sent EXCEPT ![i].acknowledged = TRUE ]

IsStreamType(frameType) == frameType >= 8 /\ frameType <= 15

\* processFrames whose default case skips the type byte alone and goes on with
\* the byte after it
RECURSIVE ProcessFramesSkipOne(_, _, _, _)
ProcessFramesSkipOne(x, oracle, payload, offset) ==
    IF offset >= Len(payload) THEN [ x EXCEPT !.ret = TRUE ]
    ELSE LET frameType == At(payload, offset)
             next == offset + 1
         IN  CASE frameType \in { 0, 1 } ->
                    ProcessFramesSkipOne(x, oracle, payload, next)
               [] frameType \in { 2, 3 } ->
                    IF next + 4 <= Len(payload)
                    THEN [ x EXCEPT !.h.m_sentPackets =
                                       MarkAcknowledged(@, ReadBE32(payload, next)),
                                    !.ret = TRUE ]
                    ELSE [ x EXCEPT !.ret = TRUE ]
               [] IsStreamType(frameType) ->
                    SendPacket(x, oracle, "ONE_RTT", payload)
               [] frameType = 6 ->
                    [ x EXCEPT !.ret = TRUE ]
               [] OTHER ->
                    ProcessFramesSkipOne(x, oracle, payload, next)

\* QUICHandler::processFrames, from byte `offset` of the payload on
RECURSIVE ProcessFramesFrom(_, _, _, _)
ProcessFramesFrom(x, oracle, payload, offset) ==
    IF offset >= Len(payload) THEN [ x EXCEPT !.ret = TRUE ]
    ELSE LET frameType == At(payload, offset)
             next == offset + 1
         IN  CASE frameType \in { 0, 1 } ->                 \* PADDING, PING
                    ProcessFramesFrom(x, oracle, payload, next)
               [] frameType \in { 2, 3 } ->                 \* ACK, ACK with ECN
                    IF next + 4 <= Len(payload)
                    THEN [ x EXCEPT !.h.m_sentPackets =
                                       MarkAcknowledged(@, ReadBE32(payload, next)),
                                    !.ret = TRUE ]
                    ELSE [ x EXCEPT !.ret = TRUE ]
               [] IsStreamType(frameType) ->                \* echo the payload back
                    SendPacket(x, oracle, "ONE_RTT", payload)
               [] OTHER ->                                  \* CRYPTO, unhandled types
                    [ x EXCEPT !.ret = TRUE ]

ProcessFrames(x, oracle, payload) == ProcessFramesFrom(x, oracle, payload, 0)

\* m_receivedPackets.push_back(header.packetNumber).  The vector is only ever
\* read by sendAckPacket (empty(), max_element), so it is kept as the set of
\* its elements.
TrackReceived(x, header) ==
    [ x EXCEPT !.h.m_receivedPackets = @ \cup { header.packetNumber } ]

InitialResponsePayload ==
    << 6, 0, 16, 1, 2, 3, 4, 5, 6, 7, 8, 9, 10, 11, 12, 13, 14, 15, 16 >>

HandshakeResponsePayload ==
    << 6, 0, 16, 17, 18, 19, 20, 21, 22, 23, 24, 25, 26, 27, 28, 29, 30, 31, 32 >>

\* QUICHandler::handleInitialPacket: its own accelerator attempt, then sendPacket
HandleInitialPacket(x0, oracle, header) ==
    LET x == TrackReceived(x0, header) IN
    IF UseFpga(x)
    THEN LET r == ExecutePacketOperation(x, oracle, "PACKET_FRAMING",
                                         InitialResponsePayload, x.h.m_nextPacketNumber)
         IN  IF r.success THEN RecordSent(r.x, r.data)
             ELSE SendPacket(r.x, oracle, "INITIAL", InitialResponsePayload)
    ELSE SendPacket(x, oracle, "INITIAL", InitialResponsePayload)

\* QUICHandler::handleHandshakePacket: a Handshake packet, then HANDSHAKE_DONE
HandleHandshakePacket(x0, oracle, header) ==
    LET x  == TrackReceived(x0, header)
        x1 == SendPacket(x, oracle, "HANDSHAKE", HandshakeResponsePayload)
        x2 == SendPacket(x1, oracle, "ONE_RTT", << 30 >>)
    IN  [ x2 EXCEPT !.ret = x1.ret /\ x2.ret ]

\* QUICHandler::handleOneRttPacket
HandleOneRttPacket(x0, oracle, header, payload) ==
    LET x  == TrackReceived(x0, header)
        x1 == ProcessFrames(x, oracle, payload)
    IN  IF ~x1.ret THEN x1
        ELSE SendAckPacket(x1, oracle, x1.h.m_receivedPackets)

\* a scan that does not look at the acknowledged flag
PacketsToRetransmitAll(sent) ==
    SelectSeq(sent, LAMBDA p : p.sentTime > RETRANSMIT_TIMEOUT_MS)

\* QUICHandler::checkForRetransmissions: the packets selected by the scan, in
\* m_sentPackets order
PacketsToRetransmit(sent) ==
    SelectSeq(sent, LAMBDA p : ~p.acknowledged /\ p.sentTime > RETRANSMIT_TIMEOUT_MS)

\* one retransmission: the accelerator is asked with empty input (and so always
\* declines), the stored bytes are resent, the first entry with that number
\* gets sentTime = now
ResendOne(x, oracle, packetInfo) ==
    LET r == IF UseFpga(x)
             THEN ExecutePacketOperation(x, oracle, "PACKET_RETRANSMISSION", << >>,
                                         packetInfo.packetNumber)
             ELSE [ x |-> x, success |-> FALSE, data |-> << >> ]
        bytes == IF r.success /\ r.data # << >> THEN r.data ELSE packetInfo.packetData
        i == FirstIndexOf(r.x.h.m_sentPackets, packetInfo.packetNumber)
    IN  [ r.x EXCEPT !.out = Append(@, bytes),
                     !.resent = Append(@, packetInfo.packetNumber),
                     !.h.m_sentPackets[i].sentTime = 0 ]

\* the retransmissions made from the newest selected packet to the oldest
RECURSIVE ResendAllBackwards(_, _, _)
ResendAllBackwards(x, oracle, list) ==
    IF list = << >> THEN x
    ELSE ResendAllBackwards(ResendOne(x, oracle, list[Len(list)]), oracle,
                            SubSeq(list, 1, Len(list) - 1))

RECURSIVE ResendAll(_, _, _)
ResendAll(x, oracle, list) ==
    IF list = << >> THEN x
    ELSE ResendAll(ResendOne(x, oracle, Head(list)), oracle, Tail(list))

CheckForRetransmissions(x, oracle) ==
    ResendAll(x, oracle, PacketsToRetransmit(x.h.m_sentPackets))

\* processIncomingPacket running checkForRetransmissions also after a failed
\* parse
ProcessIncomingPacketRecheck(x0, oracle, data) ==
    IF Len(data) = 0 THEN [ x0 EXCEPT !.ret = FALSE ]
    ELSE
    LET x == [ x0 EXCEPT !.h.m_lastActivity = 0 ]
        p == ParsePacket(data)
    IN
    IF ~p.ok THEN [ CheckForRetransmissions(x, oracle) EXCEPT !.ret = FALSE ]
    ELSE
    LET x1 == IF x.h.m_destConnID = << >>
              THEN [ x EXCEPT !.h.m_destConnID = p.header.destConnID ]
              ELSE x
        x2 == CASE p.header.type = "INITIAL"   -> HandleInitialPacket(x1, oracle, p.header)
                [] p.header.type = "HANDSHAKE" -> HandleHandshakePacket(x1, oracle, p.header)
                [] p.header.type = "ONE_RTT"   ->
                       HandleOneRttPacket(x1, oracle, p.header, p.payload)
                [] OTHER -> [ x1 EXCEPT !.ret = FALSE ]
        x3 == CheckForRetransmissions(x2, oracle)
    IN  [ x3 EXCEPT !.ret = x2.ret ]

\* QUICHandler::processIncomingPacket
ProcessIncomingPacket(x0, oracle, data) ==
    IF Len(data) = 0 THEN [ x0 EXCEPT !.ret = FALSE ]
    ELSE
    LET x == [ x0 EXCEPT !.h.m_lastActivity = 0 ]           \* updateActivity()
        p == ParsePacket(data)
    IN
    IF ~p.ok THEN [ x EXCEPT !.ret = FALSE ]
    ELSE
    LET x1 == IF x.h.m_destConnID = << >>
              THEN [ x EXCEPT !.h.m_destConnID = p.header.destConnID ]
              ELSE x
        x2 == CASE p.header.type = "INITIAL"   -> HandleInitialPacket(x1, oracle, p.header)
                [] p.header.type = "HANDSHAKE" -> HandleHandshakePacket(x1, oracle, p.header)
                [] p.header.type = "ONE_RTT"   ->
                       HandleOneRttPacket(x1, oracle, p.header, p.payload)
                [] OTHER -> [ x1 EXCEPT !.ret = FALSE ]
        x3 == CheckForRetransmissions(x2, oracle)
    IN  [ x3 EXCEPT !.ret = x2.ret ]

\* isActive without the idle test
IsActiveWhileConnected(h) == h.m_connected

\* QUICHandler::isActive
IsActive(h) == h.m_connected /\ h.m_lastActivity < IDLE_TIMEOUT_MS

-----------------------------------------------------------------------------
(* Model bounds and inputs *)

MaxSent == 2            \* packets one connection sends (m_nextPacketNumber)
MaxIdleSteps == 1       \* time steps without a datagram explored by Spec
MaxResends == 11        \* resends of one packet the observer counts up to

\* one time step of Spec takes a packet past the retransmission timeout, one
\* of SpecProxy is the cleanup period
StepRto == RETRANSMIT_TIMEOUT_MS + 1

Client1 == "10.0.0.1:4433"
Client2 == "10.0.0.2:4433"
Clients == { Client1, Client2 }

\* RAND_bytes(connID, 8)
RandomConnIDs == { << 161, 162, 163, 164, 165, 166, 167, 168 >> }

PeerDcid == << 1, 2, 3, 4, 5, 6, 7, 8 >>
PeerScid == << 17, 18, 19, 20 >>

\* datagrams a peer can put on the socket, in the one-byte-length form
\* parsePacket reads
PeerLong(firstByte, version, dcid, scid, hasToken, packetNumber, payload) ==
    << firstByte >> \o BE32(version) \o << Len(dcid) >> \o dcid \o << Len(scid) >> \o scid
      \o (IF hasToken THEN << 0 >> ELSE << >>)
      \o << Len(payload) + 4 >> \o BE32(packetNumber) \o payload

PeerShort(firstByte, dcid, packetNumber, payload) ==
    << firstByte >> \o dcid \o BE32(packetNumber) \o payload

AckFramePayload(largest) == << 2 >> \o BE32(largest) \o << 0, 0, 0, 0 >>
StreamFramePayload == << 10, 0, 0, 0, 0 >> \o Repeat(0, 8) \o << 2, 0, 222, 173 >>

DgInitial   == PeerLong(192, 1, PeerDcid, PeerScid, TRUE, 0, << 6, 0, 4, 170, 187, 204, 221 >>)
DgHandshake == PeerLong(224, 1, PeerDcid, PeerScid, FALSE, 0, << 6, 0, 1, 9 >>)
DgZeroRtt   == PeerLong(208, 1, PeerDcid, PeerScid, FALSE, 0, << 1 >>)
DgAck(n)    == PeerShort(64, PeerDcid, 0, AckFramePayload(n))
DgStream    == PeerShort(64, PeerDcid, 0, StreamFramePayload)
DgShort     == << 192, 0, 0 >>                        \* shorter than any header

EngineDatagrams ==
    { DgInitial, DgHandshake, DgZeroRtt, DgStream, DgShort }
      \cup { DgAck(n) : n \in 0..MaxSent }

-----------------------------------------------------------------------------
(* Time *)

\* every steady_clock time point grows older by `step` ms; an age is kept
\* exact up to the threshold it is compared with and stays where it is once
\* it is past it
Older(age, step, threshold) == IF age > threshold THEN age ELSE age + step

OlderPacket(p, step) ==
    [ p EXCEPT !.sentTime = Older(@, step, RETRANSMIT_TIMEOUT_MS) ]

OlderHandler(h, step) ==
    [ h EXCEPT !.m_lastActivity = Older(@, step, IDLE_TIMEOUT_MS),
               !.m_sentPackets = [ i \in 1..Len(@) |-> OlderPacket(@[i], step) ] ]

\* the observer's count of resends per packet number, after a handler call
\* that resent the packet numbers in `log`; the count stops at `cap`
CountResends(count, log, cap) ==
    [ n \in DOMAIN count |->
        LET sum == count[n] + Cardinality({ i \in 1..Len(log) : log[i] = n })
        IN  IF sum > cap THEN cap ELSE sum ]

NoJob == [ stage |-> "none" ]

\* nothing received
NoDatagram == [ clientKey |-> "", data |-> << >> ]

NoResends == [ k \in Clients |-> [ n \in 0..(MaxSent - 1) |-> 0 ] ]

WithinLimits(h, maxSent) == h.m_nextPacketNumber <= maxSent

\* a core of quic_crypto after rst = '1': no operation under way, done low
CoreIdle == [ busy |-> FALSE, latency |-> 0, done |-> FALSE ]

\* quic_crypto after rst = '1'. The reset branch assigns state, done, the two
\* ready outputs, data_out_valid and auth_result; aes_start and gcm_start have
\* no reset value and no initial value, and keep what they powered up with.
\* done_held is the one thing about the cores the entity leaves open: whether
\* a core holds done until its next start or pulses it for one clock.
CryptoReset(aes_start, gcm_start, done_held) ==
    [ state |-> "IDLE", done |-> FALSE, data_in_ready |-> FALSE,
      data_out_valid |-> FALSE, aad_ready |-> FALSE, auth_result |-> FALSE,
      aes_start |-> aes_start, gcm_start |-> gcm_start,
      aes |-> CoreIdle, gcm |-> CoreIdle, done_held |-> done_held,
      edge |-> FALSE ]

\* the packet processor after rst = '1'
ProcessorIdle ==
    /\ streams = << >>
    /\ stream_count = 0
    /\ current_stream_id = 0
    /\ packet_tracker = << >>
    /\ packet_index = 0
    /\ out_buf_wrptr = 0
    /\ hw_time = 0
    /\ hw_out = << >>
    /\ hw_op = [ op |-> "rst", input |-> << >> ]

\* the packet processor and the crypto module after rst = '1'
HwIdle ==
    /\ ProcessorIdle
    /\ crypto = CryptoReset(FALSE, FALSE, FALSE)

\* one thread, no mutex held, nothing queued
ThrIdle ==
    /\ m_regMutex = { }
    /\ m_connectionsMutex = { }
    /\ threads = << >>
    /\ socket = << >>
    /\ processed = << >>

\* no proxy started, no connection
SwIdle ==
    /\ m_connections = << >>
    /\ m_running = FALSE
    /\ m_accelerationEnabled = TRUE
    /\ m_activeConnections = 0
    /\ loop_pc = "none"
    /\ cleanupAge = 0
    /\ fpga = [ connected |-> TRUE, simulation |-> TRUE ]
    /\ wire = << >>
    /\ resends = NoResends
    /\ reaped = { }
    /\ received = NoDatagram

-----------------------------------------------------------------------------
(* Spec: one QUICHandler driven through its public operations *)

\* the connection: the one handler of this specification
Conn == m_connections[1]

\* processIncomingPacket(data, length), as the receive loop calls it, on the
\* handler alone: the socket is not observed here
Deliver(data, maxSent, cap) ==
    \E oracle \in Oracles(Conn, fpga) :
       LET x == ProcessIncomingPacket(Ctx(Conn, fpga), oracle, data) IN
       /\ \A i \in (x.calls + 1)..FpgaCallsPerDatagram : oracle[i]   \* calls not made
       /\ WithinLimits(x.h, maxSent)
       /\ m_connections' = << x.h >>
       /\ resends' = [ resends EXCEPT ![Client1] = CountResends(@, x.resent, cap) ]
       /\ UNCHANGED << m_running, m_accelerationEnabled, m_activeConnections,
                       loop_pc, cleanupAge, fpga, wire, reaped, received, hwVars, job, thrVars >>

\* QUICHandler::setAccelerationEnabled
SetHandlerAcceleration(enabled) ==
    /\ Conn.m_accelerationEnabled # enabled
    /\ m_connections' = << [ Conn EXCEPT !.m_accelerationEnabled = enabled ] >>
    /\ m_accelerationEnabled' = enabled
    /\ UNCHANGED << m_running, m_activeConnections, loop_pc, cleanupAge, fpga, wire,
                    resends, reaped, received, hwVars, job, thrVars >>

\* time passes
Advance(step, maxIdle) ==
    /\ \A i \in 1..Len(m_connections) : m_connections[i].m_lastActivity < maxIdle
    /\ m_connections' = [ i \in 1..Len(m_connections) |->
                            OlderHandler(m_connections[i], step) ]
    /\ cleanupAge' = IF loop_pc = "none" THEN cleanupAge
                     ELSE Older(cleanupAge, step, CLEANUP_PERIOD_S * 1000)
    /\ UNCHANGED << m_running, m_accelerationEnabled, m_activeConnections, loop_pc,
                    fpga, wire, resends, reaped, received, hwVars, job, thrVars >>

Init ==
    /\ m_accelerationEnabled \in BOOLEAN
    /\ \E connID \in RandomConnIDs :
          m_connections = << NewHandler(Client1, m_accelerationEnabled, connID) >>
    /\ m_running = TRUE
    /\ m_activeConnections = 1
    /\ loop_pc = "none"
    /\ cleanupAge = 0
    /\ fpga \in [ connected : { TRUE }, simulation : BOOLEAN ]
    /\ wire = << >>
    /\ resends = NoResends
    /\ reaped = { }
    /\ received = NoDatagram
    /\ HwIdle
    /\ job = NoJob
    /\ ThrIdle

Next ==
    \/ \E d \in EngineDatagrams : Deliver(d, MaxSent, 0)
    \/ \E b \in BOOLEAN : SetHandlerAcceleration(b)
    \/ Advance(StepRto, MaxIdleSteps * StepRto)

Spec == Init /\ [][Next]_vars

-----------------------------------------------------------------------------
(* SpecRetx: one connection whose first response is never acknowledged *)

RetxDatagrams == { DgInitial, DgZeroRtt }

NextRetx ==
    \/ \E d \in RetxDatagrams : Deliver(d, 1, MaxResends)
    \/ Advance(StepRto, MaxIdleSteps * StepRto)

SpecRetx == Init /\ [][NextRetx]_vars

-----------------------------------------------------------------------------
(* SpecProxy: QUICProxy's receive thread, its connection table and clients *)

MaxSentProxy == 1       \* packets one connection sends in SpecProxy

\* one time step of SpecProxy is half the idle timeout
StepIdle == IDLE_TIMEOUT_MS \div 2

\* an Initial whose token length is a multi-byte variable-length integer
DgBigToken ==
    << 192 >> \o BE32(1) \o << 8 >> \o PeerDcid \o << 4 >> \o PeerScid
      \o << 64, 0, 0, 0, 0, 0 >>

ProxyDatagrams == { DgInitial, DgShort, DgBigToken }

ActiveOnes(conns) == SelectSeq(conns, IsActive)

ClientKeys(conns) == { conns[i].m_clientKey : i \in 1..Len(conns) }

\* the gate of cleanupInactiveConnections: duration_cast<seconds>(...) < 5 returns
CleanupDue == cleanupAge >= CLEANUP_PERIOD_S * 1000

\* top of the while loop: cleanupInactiveConnections(), updateConnectionStats()
LoopTop ==
    /\ loop_pc = "top"
    /\ m_running
    /\ loop_pc' = "select"
    /\ wire' = << >>
    /\ IF CleanupDue
       THEN /\ cleanupAge' = 0
            /\ m_connections' = ActiveOnes(m_connections)
            /\ reaped' = ClientKeys(m_connections) \ ClientKeys(m_connections')
            /\ m_activeConnections' =
                  IF Len(m_connections') < Len(m_connections)
                  THEN Len(m_connections') ELSE m_activeConnections
       ELSE /\ reaped' = { }
            /\ UNCHANGED << cleanupAge, m_connections, m_activeConnections >>
    /\ received' = NoDatagram
    /\ UNCHANGED << m_running, m_accelerationEnabled, fpga, resends, hwVars, job, thrVars >>

\* select() times out, is interrupted, or recvfrom() fails: continue
SelectTimeout ==
    /\ loop_pc = "select"
    /\ loop_pc' = "top"
    /\ UNCHANGED << m_connections, m_running, m_accelerationEnabled, m_activeConnections,
                    cleanupAge, fpga, wire, resends, reaped, received, hwVars, job, thrVars >>

\* select() fails with an error other than EINTR: break
SelectError ==
    /\ loop_pc = "select"
    /\ loop_pc' = "exited"
    /\ UNCHANGED << m_connections, m_running, m_accelerationEnabled, m_activeConnections,
                    cleanupAge, fpga, wire, resends, reaped, received, hwVars, job, thrVars >>

\* position of the client's handler in the table, 0 when it has none
HandlerIndex(conns, clientKey) ==
    IF \E i \in 1..Len(conns) : conns[i].m_clientKey = clientKey
    THEN CHOOSE i \in 1..Len(conns) :
            /\ conns[i].m_clientKey = clientKey
            /\ \A j \in 1..(i - 1) : conns[j].m_clientKey # clientKey
    ELSE 0

\* a datagram is received: find or create the client's handler, process it
Recv(clientKey, data, maxSent, cap) ==
    /\ loop_pc = "select"
    /\ \E connID \in RandomConnIDs :
       LET found == HandlerIndex(m_connections, clientKey)
           conns == IF found = 0
                    THEN Append(m_connections,
                                NewHandler(clientKey, m_accelerationEnabled, connID))
                    ELSE m_connections
           i     == IF found = 0 THEN Len(conns) ELSE found
       IN  \E oracle \in Oracles(conns[i], fpga) :
              LET x == ProcessIncomingPacket(Ctx(conns[i], fpga), oracle, data) IN
              /\ \A c \in (x.calls + 1)..FpgaCallsPerDatagram : oracle[c]
              /\ WithinLimits(x.h, maxSent)
              /\ m_connections' = [ conns EXCEPT ![i] = x.h ]
              /\ m_activeConnections' =
                    IF found = 0 THEN m_activeConnections + 1 ELSE m_activeConnections
              /\ wire' = x.out
              /\ resends' = [ resends EXCEPT ![clientKey] =
                                CountResends(IF found = 0 THEN NoResends[clientKey] ELSE @,
                                             x.resent, cap) ]
    /\ loop_pc' = "top"
    /\ received' = [ clientKey |-> clientKey, data |-> data ]
    /\ UNCHANGED << m_running, m_accelerationEnabled, cleanupAge, fpga, reaped,
                    hwVars, job, thrVars >>

\* QUICProxy::setAccelerationEnabled, called from another thread under
\* m_connectionsMutex
SetAccelerationEnabled(enabled) ==
    /\ m_accelerationEnabled' = enabled
    /\ m_connections' = [ i \in 1..Len(m_connections) |->
                            [ m_connections[i] EXCEPT !.m_accelerationEnabled = enabled ] ]
    /\ UNCHANGED << m_running, m_activeConnections, loop_pc, cleanupAge, fpga, wire,
                    resends, reaped, received, hwVars, job, thrVars >>

InitProxy ==
    /\ m_connections = << >>
    /\ m_running = TRUE
    /\ m_accelerationEnabled \in BOOLEAN
    /\ m_activeConnections = 0
    /\ loop_pc = "top"
    /\ cleanupAge = 0
    /\ fpga \in [ connected : { TRUE }, simulation : BOOLEAN ]
    /\ wire = << >>
    /\ resends = NoResends
    /\ reaped = { }
    /\ received = NoDatagram
    /\ HwIdle
    /\ job = NoJob
    /\ ThrIdle

AdvanceProxy == Advance(StepIdle, 2 * IDLE_TIMEOUT_MS)

\* the steps of a receive thread whose select() does not fail
NextProxyRunning ==
    \/ LoopTop
    \/ SelectTimeout
    \/ \E k \in Clients : \E d \in ProxyDatagrams : Recv(k, d, MaxSentProxy, 1)
    \/ \E b \in BOOLEAN : SetAccelerationEnabled(b)
    \/ AdvanceProxy

NextProxy ==
    \/ NextProxyRunning
    \/ SelectError

SpecProxy == InitProxy /\ [][NextProxy]_vars

\* the receive thread keeps running and time keeps passing; nothing obliges a
\* peer to send
SpecProxyLive ==
    /\ InitProxy
    /\ [][NextProxyRunning]_vars
    /\ WF_vars(LoopTop)
    /\ WF_vars(SelectTimeout)
    /\ WF_vars(AdvanceProxy)

-----------------------------------------------------------------------------
(* SpecValidate: one connection receiving datagrams a validating receiver  *)
(* would turn away                                                         *)

\* a 1-RTT datagram of the connection's peer, but for another connection ID
DgForeignAck == PeerShort(64, Repeat(9, 8), 0, AckFramePayload(0))

\* first byte 0x70: short header, low five bits 10000
DgReserved == PeerShort(112, PeerDcid, 0, AckFramePayload(0))

\* a frame of type 0xFF, then an ACK frame for packet 0
DgUnknownFrame == PeerShort(64, PeerDcid, 0, << 255 >> \o AckFramePayload(0))

\* a PING frame, a frame of type 0xFF, then an ACK frame for packet 0
DgPingUnknownFrame == PeerShort(64, PeerDcid, 0, << 1, 255 >> \o AckFramePayload(0))

\* Initials with a destination, a source connection ID of 21 bytes
DgLongDcid == PeerLong(192, 1, Repeat(9, 21), PeerScid, TRUE, 0, << 6, 0, 1, 9 >>)
DgLongScid == PeerLong(192, 1, PeerDcid, Repeat(9, 21), TRUE, 0, << 6, 0, 1, 9 >>)

ValidateDatagrams ==
    { DgInitial, DgAck(0), DgForeignAck, DgReserved, DgUnknownFrame,
      DgPingUnknownFrame, DgLongDcid, DgLongScid }

\* recvfrom() of a datagram of the one client and processIncomingPacket(buffer,
\* bytesRead) on its handler, the socket observed
HandleDatagram(data, maxSent) ==
    \E oracle \in Oracles(Conn, fpga) :
       LET x == ProcessIncomingPacket(Ctx(Conn, fpga), oracle, data) IN
       /\ \A i \in (x.calls + 1)..FpgaCallsPerDatagram : oracle[i]   \* calls not made
       /\ WithinLimits(x.h, maxSent)
       /\ m_connections' = << x.h >>
       /\ wire' = x.out
       /\ received' = [ clientKey |-> Conn.m_clientKey, data |-> data ]
       /\ UNCHANGED << m_running, m_accelerationEnabled, m_activeConnections,
                       loop_pc, cleanupAge, fpga, resends, reaped, hwVars, job, thrVars >>

\* the datagrams arrive back to back: no timeout expires between them
NextValidate == \E d \in ValidateDatagrams : HandleDatagram(d, MaxSent)

SpecValidate == Init /\ [][NextValidate]_vars

-----------------------------------------------------------------------------
(* quic_packet_processor.vhd: stream table and packet tracker               *)
(*                                                                         *)
(* The statements of a state of the clocked process are read in program    *)
(* order, each assignment visible to the statements after it (the loops    *)
(* that advance a pointer while reading it have no other reading).  Each   *)
(* operation below is one pass through the states it names.  The stream    *)
(* and tracker arrays are kept as the sequence of the slots written so     *)
(* far: slots are written in index order and never released.  Offsets and  *)
(* packet numbers stay below 2^31.                                         *)

MAX_STREAMS == 64
MAX_TRACKED_PACKETS == 128
BUFFER_SIZE == 2048

PKT_TYPE_APP_DATA == 0
FRAME_TYPE_PADDING == 0
FRAME_TYPE_PING == 1
FRAME_TYPE_ACK == 2
FRAME_TYPE_ACK_ECN == 3
FRAME_TYPE_RESET == 4
FRAME_TYPE_CRYPTO == 6

\* a stream_record as rst leaves it
IdleStream ==
    [ stream_id |-> 0, state |-> "STREAM_IDLE", recv_offset |-> 0, send_offset |-> 0,
      is_bidi |-> FALSE, last_activity |-> 0, fin_received |-> FALSE, fin_sent |-> FALSE ]

\* eight bytes, least significant first, of a value below 2^31
LE64(n) == LE32(n) \o << 0, 0, 0, 0 >>

ReadLE32(data, off) ==
    At(data, off) + At(data, off + 1) * 256
      + At(data, off + 2) * 65536 + At(data, off + 3) * 16777216

\* the low four of eight little-endian bytes; the inputs keep the high four zero
ReadLE64(data, off) == ReadLE32(data, off)

\* CREATE_HEADER for packet_type = PKT_TYPE_APP_DATA (mode "10"), the short
\* header: the header_size = 13 bytes of header_buf; connection_id is given as
\* its eight bytes, least significant first
CreateHeader(connection_id, packet_number) ==
    << PKT_TYPE_APP_DATA >> \o connection_id \o LE32(packet_number)

\* index of the first slot whose stream_id is id, 0 when there is none
FirstStreamWithId(strs, id) ==
    IF \E i \in 1..Len(strs) : strs[i].stream_id = id
    THEN CHOOSE i \in 1..Len(strs) :
            /\ strs[i].stream_id = id
            /\ \A j \in 1..(i - 1) : strs[j].stream_id # id
    ELSE 0

FirstOpenStream(strs) ==
    IF \E i \in 1..Len(strs) : strs[i].state = "STREAM_OPEN"
    THEN CHOOSE i \in 1..Len(strs) :
            /\ strs[i].state = "STREAM_OPEN"
            /\ \A j \in 1..(i - 1) : strs[j].state # "STREAM_OPEN"
    ELSE 0

\* a slot initialised as an outbound stream
OpenedStream(id, now) ==
    [ IdleStream EXCEPT !.stream_id = id, !.state = "STREAM_OPEN", !.is_bidi = TRUE,
                        !.last_activity = now ]

\* ChooseStream without the capacity test
ChooseStreamUnbounded(strs, count, now) ==
    IF count = 0
    THEN [ streams |-> << OpenedStream(0, now) >>, stream_count |-> 1,
           current_stream_id |-> 0 ]
    ELSE [ streams |-> Append(strs, OpenedStream(count, now)),
           stream_count |-> count + 1, current_stream_id |-> count ]

\* FRAME_DATA, "Determine which stream to use": [streams, stream_count,
\* current_stream_id]
ChooseStream(strs, count, now) ==
    IF count = 0
    THEN [ streams |-> << OpenedStream(0, now) >>, stream_count |-> 1,
           current_stream_id |-> 0 ]
    ELSE IF count < MAX_STREAMS
    THEN [ streams |-> Append(strs, OpenedStream(count, now)),
           stream_count |-> count + 1, current_stream_id |-> count ]
    ELSE LET i == FirstOpenStream(strs) IN
         IF i = 0
         THEN [ streams |-> strs, stream_count |-> count,
                current_stream_id |-> strs[1].stream_id ]
         ELSE [ streams |-> [ strs EXCEPT ![i].last_activity = now ],
                stream_count |-> count, current_stream_id |-> strs[i].stream_id ]

\* FRAME_DATA marking the stream it sends on as open
FrameDataReopen(strs, count, cur, payload, now) ==
    IF Len(payload) > 0
    THEN LET c == ChooseStream(strs, count, now)
             i == FirstStreamWithId(c.streams, c.current_stream_id)
             size == Len(payload)
         IN  [ streams |-> [ c.streams EXCEPT ![i].send_offset = @ + size,
                                              ![i].last_activity = now,
                                              ![i].state = "STREAM_OPEN" ],
               stream_count |-> c.stream_count,
               current_stream_id |-> c.current_stream_id,
               frame |-> << 10 >>
                           \o LE32(c.current_stream_id)
                           \o LE64(c.streams[i].send_offset)
                           \o << size % 256, size \div 256 >>
                           \o payload ]
    ELSE [ streams |-> strs, stream_count |-> count, current_stream_id |-> cur,
           frame |-> << FRAME_TYPE_PING >> ]

\* FRAME_DATA: [streams, stream_count, current_stream_id, frame], frame being
\* the bytes written after the header
FrameData(strs, count, cur, payload, now) ==
    IF Len(payload) > 0                             \* in_buf_wrptr > in_buf_rdptr
    THEN LET c == ChooseStream(strs, count, now)
             i == FirstStreamWithId(c.streams, c.current_stream_id)
             size == Len(payload)
         IN  [ streams |-> [ c.streams EXCEPT ![i].send_offset = @ + size,
                                              ![i].last_activity = now ],
               stream_count |-> c.stream_count,
               current_stream_id |-> c.current_stream_id,
               frame |-> << 10 >>                   \* FRAME_TYPE_STREAM or x"0A"
                           \o LE32(c.current_stream_id)
                           \o LE64(c.streams[i].send_offset)
                           \o << size % 256, size \div 256 >>
                           \o payload ]
    ELSE [ streams |-> strs, stream_count |-> count, current_stream_id |-> cur,
           frame |-> << FRAME_TYPE_PING >> ]

\* "Store packet for potential retransmission"
StorePacket(tracker, index, rec) ==
    IF index + 1 > Len(tracker) THEN Append(tracker, rec)
    ELSE [ tracker EXCEPT ![index + 1] = rec ]

\* OUTPUT_DATA: 64-bit words, the last one filled up with zero bytes
OutputWords(bytes) == bytes \o Repeat(0, (8 - (Len(bytes) % 8)) % 8)

\* PROCESS_STREAM_FRAME with the found stream's recv_offset stored without
\* the comparison
ProcessStreamFrameOverwrite(strs, count, cur, buf, now) ==
    IF Len(buf) < 6
    THEN [ streams |-> strs, stream_count |-> count, current_stream_id |-> cur ]
    ELSE
    LET frame_type_byte == At(buf, 0)
        id              == ReadLE32(buf, 1)
        has_fin_flag    == frame_type_byte % 2 = 1
        has_len         == (frame_type_byte \div 2) % 2 = 1
        has_off         == (frame_type_byte \div 4) % 2 = 1
        stream_offset   == IF has_off THEN ReadLE64(buf, 5) ELSE 0
        rd              == IF has_off THEN 13 ELSE 5
        data_length     == IF has_len THEN At(buf, rd) + 256 * At(buf, rd + 1)
                           ELSE Len(buf) - rd
        j               == FirstStreamWithId(strs, id)
    IN
    IF j # 0
    THEN [ streams |->
             [ strs EXCEPT
                 ![j].recv_offset = stream_offset + data_length,
                 ![j].last_activity = now,
                 ![j].fin_received = IF has_fin_flag THEN TRUE ELSE @,
                 ![j].state = IF has_fin_flag /\ @ = "STREAM_OPEN"
                              THEN "STREAM_CLOSED" ELSE @ ],
           stream_count |-> count, current_stream_id |-> id ]
    ELSE IF count < MAX_STREAMS
    THEN [ streams |->
             Append(strs,
                    [ stream_id |-> id,
                      state |-> IF has_fin_flag THEN "STREAM_CLOSED" ELSE "STREAM_OPEN",
                      recv_offset |-> stream_offset + data_length,
                      send_offset |-> 0,
                      is_bidi |-> TRUE,
                      last_activity |-> now,
                      fin_received |-> has_fin_flag,
                      fin_sent |-> FALSE ]),
           stream_count |-> count + 1, current_stream_id |-> id ]
    ELSE [ streams |-> strs, stream_count |-> count, current_stream_id |-> id ]

\* PROCESS_STREAM_FRAME on the unread bytes buf of the input buffer:
\* [streams, stream_count, current_stream_id]
ProcessStreamFrame(strs, count, cur, buf, now) ==
    IF Len(buf) < 6                                 \* nothing unread, or too short
    THEN [ streams |-> strs, stream_count |-> count, current_stream_id |-> cur ]
    ELSE
    LET frame_type_byte == At(buf, 0)
        id              == ReadLE32(buf, 1)
        has_fin_flag    == frame_type_byte % 2 = 1
        has_len         == (frame_type_byte \div 2) % 2 = 1
        has_off         == (frame_type_byte \div 4) % 2 = 1
        stream_offset   == IF has_off THEN ReadLE64(buf, 5) ELSE 0
        rd              == IF has_off THEN 13 ELSE 5
        data_length     == IF has_len THEN At(buf, rd) + 256 * At(buf, rd + 1)
                           ELSE Len(buf) - rd
        j               == FirstStreamWithId(strs, id)
    IN
    IF j # 0
    THEN [ streams |->
             [ strs EXCEPT
                 ![j].recv_offset = IF stream_offset + data_length > @
                                    THEN stream_offset + data_length ELSE @,
                 ![j].last_activity = now,
                 ![j].fin_received = IF has_fin_flag THEN TRUE ELSE @,
                 ![j].state = IF has_fin_flag /\ @ = "STREAM_OPEN"
                              THEN "STREAM_CLOSED" ELSE @ ],
           stream_count |-> count, current_stream_id |-> id ]
    ELSE IF count < MAX_STREAMS
    THEN [ streams |->
             Append(strs,
                    [ stream_id |-> id,
                      state |-> IF has_fin_flag THEN "STREAM_CLOSED" ELSE "STREAM_OPEN",
                      recv_offset |-> stream_offset + data_length,
                      send_offset |-> 0,
                      is_bidi |-> TRUE,
                      last_activity |-> now,
                      fin_received |-> has_fin_flag,
                      fin_sent |-> FALSE ]),
           stream_count |-> count + 1, current_stream_id |-> id ]
    ELSE [ streams |-> strs, stream_count |-> count, current_stream_id |-> id ]

-----------------------------------------------------------------------------
(* SpecHw: the packet processor driven through its operations *)

MaxHwPackets == 66      \* packets framed (packet_index)

HwConnectionId == << 161, 162, 163, 164, 165, 166, 167, 168 >>

\* a short-header packet VALIDATE_HEADER accepts, loaded as two 64-bit words
HwPacket == << 0 >> \o HwConnectionId \o << 7, 0, 0, 0, 0, 0, 0 >>

\* an inbound STREAM frame: type byte, 4-byte stream id, 8-byte offset when
\* the OFF flag is set, 2-byte length, data
HwStreamFrame(frame_type_byte, id, offset, data) ==
    << frame_type_byte >> \o LE32(id)
      \o (IF (frame_type_byte \div 4) % 2 = 1 THEN LE64(offset) ELSE << >>)
      \o LE16(Len(data)) \o data

HwFrames ==
    { HwStreamFrame(14, 1, 4, << 170, 187 >>),          \* stream 1, bytes 4..5
      HwStreamFrame(10, 1, 0, << 170, 187 >>),          \* stream 1, bytes 0..1
      HwStreamFrame(15, 200, 0, << 204 >>) }            \* stream 200, with FIN

\* operation "00" in mode "10" with a packet VALIDATE_HEADER accepts:
\* LOAD_DATA, VALIDATE_HEADER, CREATE_HEADER, FRAME_DATA, OUTPUT_DATA, COMPLETE
HwFrame(packet_number, data) ==
    /\ LET header == CreateHeader(HwConnectionId, packet_number)
           f      == FrameData(streams, stream_count, current_stream_id, data, hw_time)
           bytes  == header \o f.frame
           wrptr  == (out_buf_wrptr + Len(bytes)) % BUFFER_SIZE
       IN  /\ streams' = f.streams
           /\ stream_count' = f.stream_count
           /\ current_stream_id' = f.current_stream_id
           /\ packet_tracker' = StorePacket(packet_tracker, packet_index,
                                            [ packet_num |-> packet_number,
                                              size |-> wrptr,
                                              timestamp |-> hw_time,
                                              acked |-> FALSE,
                                              retx_count |-> 0 ])
           /\ packet_index' = (packet_index + 1) % MAX_TRACKED_PACKETS
           /\ out_buf_wrptr' = wrptr
           /\ hw_out' = OutputWords(bytes)
    /\ hw_op' = [ op |-> "FRAME_DATA", input |-> data ]
    /\ UNCHANGED << swVars, hw_time, crypto, job, thrVars >>

\* the operation, for as many packets as this model frames
HwFrameOperation(packet_number, data) ==
    /\ packet_index < MaxHwPackets
    /\ HwFrame(packet_number, data)

\* a STREAM frame in the input buffer goes through PROCESS_STREAM_FRAME, COMPLETE.
\* The state is entered from PROCESS_PAYLOAD alone, and no transition of the file
\* enters PROCESS_PAYLOAD: the operation is the state run on a frame at the read
\* pointer, as the processing of an inbound STREAM frame the file describes.
HwStreamOperation(frame) ==
    /\ LET r == ProcessStreamFrame(streams, stream_count, current_stream_id, frame,
                                   hw_time)
       IN  /\ streams' = r.streams
           /\ stream_count' = r.stream_count
           /\ current_stream_id' = r.current_stream_id
    /\ hw_out' = << >>
    /\ hw_op' = [ op |-> "PROCESS_STREAM_FRAME", input |-> frame ]
    /\ UNCHANGED << swVars, packet_tracker, packet_index, out_buf_wrptr, hw_time,
                    crypto, job, thrVars >>

InitHw == SwIdle /\ HwIdle /\ job = NoJob /\ ThrIdle

NextHw ==
    \/ HwFrameOperation(packet_index, HwPacket)
    \/ \E frame \in HwFrames : HwStreamOperation(frame)

SpecHw == InitHw /\ [][NextHw]_vars

-----------------------------------------------------------------------------
(* SpecStreams: the life of one stream under inbound frames of every kind   *)
(* and outbound framing                                                    *)

\* PROCESS_PAYLOAD on the unread bytes buf of the input buffer: the state it
\* hands over to and header_valid
ProcessPayload(buf) ==
    IF Len(buf) = 0                                 \* in_buf_rdptr = in_buf_wrptr
    THEN [ next_state |-> "COMPLETE", header_valid |-> TRUE ]
    ELSE LET t == At(buf, 0) IN
         IF t \in { FRAME_TYPE_PADDING, FRAME_TYPE_PING, FRAME_TYPE_ACK,
                    FRAME_TYPE_ACK_ECN, FRAME_TYPE_RESET, FRAME_TYPE_CRYPTO }
               \/ (t >= 8 /\ t <= 15)
         THEN CASE t >= 8 /\ t <= 15 ->
                     [ next_state |-> "PROCESS_STREAM_FRAME", header_valid |-> TRUE ]
                [] t \in { FRAME_TYPE_ACK, FRAME_TYPE_ACK_ECN } ->
                     [ next_state |-> "PROCESS_ACK", header_valid |-> TRUE ]
                [] OTHER ->                         \* read pointer moves one byte on
                     [ next_state |-> "COMPLETE", header_valid |-> TRUE ]
         ELSE [ next_state |-> "COMPLETE", header_valid |-> FALSE ]

\* PROCESS_ACK with the ports ack_receive and ack_packet_num: the tracker, its
\* first packet with that number marked
ProcessAck(tracker, ack_receive, ack_packet_num) ==
    LET hits == { i \in 1..Len(tracker) : tracker[i].packet_num = ack_packet_num } IN
    IF ack_receive /\ hits # { }
    THEN [ tracker EXCEPT ![CHOOSE i \in hits : \A j \in hits : i <= j].acked = TRUE ]
    ELSE tracker

\* the inbound frames of this specification: STREAM frames for stream 1 with
\* the LEN flag, with and without FIN and OFF
StreamInputs ==
    { [ type |-> 14, id |-> 1, offset |-> 4, data |-> << 170, 187 >> ],   \* bytes 4..5
      [ type |-> 15, id |-> 1, offset |-> 0, data |-> << 204 >> ],        \* FIN, byte 0
      [ type |-> 11, id |-> 1, offset |-> 0, data |-> << 204, 221 >> ] }  \* FIN, no OFF

StreamFrameOf(f) == HwStreamFrame(f.type, f.id, f.offset, f.data)

\* stream 1 is reset at final size 3
ResetInputs == { [ id |-> 1, final_size |-> 3 ] }

\* a RESET_STREAM frame: type, 4-byte stream id, 8-byte final size
ResetFrameOf(f) == << FRAME_TYPE_RESET >> \o LE32(f.id) \o LE64(f.final_size)

\* the STREAM and RESET_STREAM frames, an ACK frame, and a frame of a type
\* PROCESS_PAYLOAD does not know
PayloadFrames ==
    { StreamFrameOf(f) : f \in StreamInputs } \cup { ResetFrameOf(f) : f \in ResetInputs }
      \cup { << FRAME_TYPE_ACK, 0, 0, 0, 0 >>, << 255, 0, 0, 0, 0 >> }

\* an inbound frame in the input buffer goes through PROCESS_PAYLOAD and the
\* state that one selects, then COMPLETE (see HwStreamOperation on how the
\* file reaches PROCESS_PAYLOAD)
HwPayloadOperation(frame, ack_receive, ack_packet_num) ==
    /\ LET p == ProcessPayload(frame)
           r == IF p.next_state = "PROCESS_STREAM_FRAME"
                THEN ProcessStreamFrame(streams, stream_count, current_stream_id, frame,
                                        hw_time)
                ELSE [ streams |-> streams, stream_count |-> stream_count,
                       current_stream_id |-> current_stream_id ]
       IN  /\ streams' = r.streams
           /\ stream_count' = r.stream_count
           /\ current_stream_id' = r.current_stream_id
           /\ packet_tracker' = IF p.next_state = "PROCESS_ACK"
                                THEN ProcessAck(packet_tracker, ack_receive, ack_packet_num)
                                ELSE packet_tracker
    /\ hw_out' = << >>
    /\ hw_op' = [ op |-> "PROCESS_PAYLOAD", input |-> frame ]
    /\ UNCHANGED << swVars, packet_index, out_buf_wrptr, hw_time, crypto, job, thrVars >>

NextStreams ==
    \/ HwFrameOperation(packet_index, HwPacket)
    \/ \E frame \in PayloadFrames : \E ack_receive \in BOOLEAN :
          HwPayloadOperation(frame, ack_receive, 0)

SpecStreams == InitHw /\ [][NextStreams]_vars

-----------------------------------------------------------------------------
(* SpecTracker: the packet processor's tracker over more packets than it    *)
(* has slots, the peer acknowledging some of the first                      *)

MaxFramed == 130        \* packets framed (port packet_number: 0, 1, 2, ...)

\* the number of the packet framed last, -1 before the first
LastFramed ==
    IF packet_tracker = << >> THEN -1
    ELSE packet_tracker[((packet_index + MAX_TRACKED_PACKETS - 1)
                           % MAX_TRACKED_PACKETS) + 1].packet_num

\* the software hands over the packets of one connection in number order
TrackerFrame ==
    /\ LastFramed + 1 < MaxFramed
    /\ HwFrame(LastFramed + 1, HwPacket)

\* packet numbers the peer acknowledges here
TrackerAcks == { 0, 1 }

NextTracker ==
    \/ TrackerFrame
    \/ \E n \in TrackerAcks :
          /\ \E i \in 1..Len(packet_tracker) :
                packet_tracker[i].packet_num = n /\ ~packet_tracker[i].acked
          /\ HwPayloadOperation(<< FRAME_TYPE_ACK, 0, 0, 0, 0 >>, TRUE, n)

SpecTracker == InitHw /\ [][NextTracker]_vars

-----------------------------------------------------------------------------
(* FPGAInterface: the compression container (simulation path) *)

\* "QCMP"
CompressionMagic == << 81, 67, 77, 80 >>

\* number of bytes equal to data[i] from index i on, counted as the encoder's
\* while loop does: at most 255
RECURSIVE RunLength(_, _, _)
RunLength(data, i, count) ==
    IF i + count <= Len(data) /\ data[i + count] = data[i] /\ count < 255
    THEN RunLength(data, i, count + 1)
    ELSE count

\* the encoder loop from (1-based) index i on
RECURSIVE EncodeFrom(_, _)
EncodeFrom(data, i) ==
    IF i > Len(data) THEN << >>
    ELSE LET count == RunLength(data, i, 1) IN
         (IF count >= 4 THEN << 255, count, data[i] >> ELSE Repeat(data[i], count))
           \o EncodeFrom(data, i + count)

\* the decoder loop from (1-based) index i on
RECURSIVE DecodeFrom(_, _)
DecodeFrom(data, i) ==
    IF i > Len(data) THEN << >>
    ELSE IF data[i] = 255 /\ i + 2 <= Len(data)       \* i + 2 < size, zero-based
    THEN Repeat(data[i + 2], data[i + 1]) \o DecodeFrom(data, i + 3)
    ELSE << data[i] >> \o DecodeFrom(data, i + 1)

\* FPGAInterface::simulateCompressionOperation: [success, data]
SimulateCompressionOperation(operationType, inputData) ==
    IF operationType = "COMPRESSION"
    THEN [ success |-> TRUE,
           data |-> CompressionMagic \o LE32(Len(inputData)) \o EncodeFrom(inputData, 1) ]
    ELSE IF Len(inputData) < 8 \/ SubSeq(inputData, 1, 4) # CompressionMagic
    THEN [ success |-> FALSE, data |-> << >> ]
    ELSE [ success |-> TRUE, data |-> DecodeFrom(inputData, 9) ]

\* FPGAInterface::executeCompressionOperation in simulation mode
ExecuteCompressionOperation(operationType, inputData) ==
    IF inputData = << >> THEN [ success |-> FALSE, data |-> << >> ]
    ELSE SimulateCompressionOperation(operationType, inputData)

-----------------------------------------------------------------------------
(* SpecCompress: a buffer is compressed, the result decompressed *)

MaxLen == 5             \* length of the buffers compressed

CompressBytes == { 7, 255 }

RECURSIVE SeqsUpTo(_, _)
SeqsUpTo(S, n) ==
    IF n = 0 THEN { << >> }
    ELSE LET shorter == SeqsUpTo(S, n - 1) IN
         shorter \cup { Append(q, b) : q \in { r \in shorter : Len(r) = n - 1 }, b \in S }

InitCompress ==
    /\ SwIdle
    /\ HwIdle
    /\ ThrIdle
    /\ \E B \in SeqsUpTo(CompressBytes, MaxLen) : job = [ stage |-> "input", B |-> B ]

Compress ==
    /\ job.stage = "input"
    /\ job' = [ stage |-> "compressed", B |-> job.B,
                c |-> ExecuteCompressionOperation("COMPRESSION", job.B) ]
    /\ UNCHANGED << swVars, hwVars, thrVars >>

Decompress ==
    /\ job.stage = "compressed"
    /\ job.c.success
    /\ job' = [ stage |-> "decompressed", B |-> job.B, c |-> job.c,
                d |-> ExecuteCompressionOperation("DECOMPRESSION", job.c.data) ]
    /\ UNCHANGED << swVars, hwVars, thrVars >>

NextCompress == Compress \/ Decompress

SpecCompress == InitCompress /\ [][NextCompress]_vars

-----------------------------------------------------------------------------
(* SpecCodec: a header is serialized by sendPacket's software path, the bytes
   parsed by parsePacket *)

CodecConnIDs == { PeerDcid, PeerScid }
CodecPacketNumbers == { 0, 1, 300 }
CodecPayloads == { << 1 >>, << 6, 0, 1, 9 >>, InitialResponsePayload }

CodecHeaders ==
    [ type : { "INITIAL", "ZERO_RTT", "HANDSHAKE", "ONE_RTT" },
      destConnID : CodecConnIDs,
      srcConnID : RandomConnIDs,
      packetNumber : CodecPacketNumbers,
      payload : CodecPayloads ]

InitCodec ==
    /\ SwIdle
    /\ HwIdle
    /\ ThrIdle
    /\ \E F \in CodecHeaders : job = [ stage |-> "input", F |-> F ]

Serialize ==
    /\ job.stage = "input"
    /\ job' = [ stage |-> "serialized", F |-> job.F,
                bytes |-> AssemblePacket(job.F.type, job.F.destConnID, job.F.srcConnID,
                                         job.F.packetNumber, job.F.payload) ]
    /\ UNCHANGED << swVars, hwVars, thrVars >>

Parse ==
    /\ job.stage = "serialized"
    /\ job' = [ stage |-> "parsed", F |-> job.F, bytes |-> job.bytes,
                parsed |-> ParsePacket(job.bytes) ]
    /\ UNCHANGED << swVars, hwVars, thrVars >>

NextCodec == Serialize \/ Parse

SpecCodec == InitCodec /\ [][NextCodec]_vars

-----------------------------------------------------------------------------
(* SpecFpgaCall: threads calling the accelerator through its register file  *)
(* (executeCryptoOperation, executePacketOperation)                          *)

FPGA_OPERATION_TIMEOUT_MS == 5000

MaxCallers == 2         \* threads with a request to the accelerator
Callers == 1..MaxCallers

FpgaOperations == { "executeCryptoOperation", "executePacketOperation" }

\* the wait loop's clock is looked at every half deadline
PollStep == FPGA_OPERATION_TIMEOUT_MS \div 2

TimeoutMessage == "Operation timed out"

\* a thread outside the interface
NotCalling == [ pc |-> "idle", operation |-> "", silent |-> FALSE, elapsed |-> 0,
                success |-> FALSE, errorMessage |-> "" ]

\* a lock_guard whose constructor never waits
LockableAlways(mutex) == TRUE

\* std::lock_guard<std::mutex> lock(mutex): the constructor returns when
\* nobody holds the mutex
Lockable(mutex) == mutex = { }

\* a wait loop without its deadline
TimedOutNever(elapsed) == FALSE

\* elapsed > FPGA_OPERATION_TIMEOUT_MS
TimedOut(elapsed) == elapsed > FPGA_OPERATION_TIMEOUT_MS

\* what readRegister(REG_STATUS, status) can give: the ioctl fails, or the
\* register shows DONE, ERROR or neither.  An accelerator that stays silent
\* for a request shows neither, every time.
StatusReads(silent) ==
    IF silent THEN { "BUSY" } ELSE { "BUSY", "DONE", "ERROR", "fault" }

\* the call is made with parameters that pass its checks.  In simulation mode
\* or without a device it is answered at once by the simulate function; else
\* it allocates its buffers and arrives at the lock_guard.
FpgaCall(t, operation, silent) ==
    /\ threads[t].pc = "idle"
    /\ threads' = [ threads EXCEPT ![t] =
                      IF fpga.simulation \/ ~fpga.connected
                      THEN [ NotCalling EXCEPT !.pc = "returned",
                                               !.operation = operation,
                                               !.success = TRUE ]
                      ELSE [ NotCalling EXCEPT !.pc = "lock",
                                               !.operation = operation,
                                               !.silent = silent ] ]
    /\ UNCHANGED << swVars, hwVars, job, m_regMutex, m_connectionsMutex, socket,
                    processed >>

\* throw std::runtime_error(message) inside the lock_guard's scope: the mutex
\* is released by the unwinding, the handler sets result.success = false.
\* The locals of the wait are gone; the time waited is kept for the timeout
\* alone, as what the caller could have measured.
Thrown(t, message) ==
    /\ m_regMutex' = m_regMutex \ { t }
    /\ threads' = [ threads EXCEPT
                      ![t] = [ NotCalling EXCEPT
                                 !.pc = "returned",
                                 !.operation = threads[t].operation,
                                 !.elapsed = IF message = TimeoutMessage
                                             THEN threads[t].elapsed ELSE 0,
                                 !.errorMessage = message ] ]

\* the lock_guard is constructed, the registers are written up to CTRL_START,
\* startWait is taken
FpgaConfigure(t) ==
    /\ threads[t].pc = "lock"
    /\ Lockable(m_regMutex)
    /\ \E written \in BOOLEAN :
          IF written
          THEN /\ m_regMutex' = m_regMutex \cup { t }
               /\ threads' = [ threads EXCEPT ![t].pc = "polling", ![t].elapsed = 0 ]
          ELSE Thrown(t, "Failed to write register")
    /\ UNCHANGED << swVars, hwVars, job, m_connectionsMutex, socket, processed >>

\* one pass of the while (true) loop, and what follows the loop when it is left
FpgaPoll(t) ==
    /\ threads[t].pc = "polling"
    /\ \E status \in StatusReads(threads[t].silent) :
          CASE status = "fault" -> Thrown(t, "Failed to read status register")
            [] status = "ERROR" -> Thrown(t, "FPGA reported error during operation")
            [] status = "DONE" ->
                  \E read \in BOOLEAN :
                     IF read
                     THEN /\ m_regMutex' = m_regMutex \ { t }
                          /\ threads' = [ threads EXCEPT
                                            ![t] = [ NotCalling EXCEPT
                                                       !.pc = "returned",
                                                       !.operation = threads[t].operation,
                                                       !.success = TRUE ] ]
                     ELSE Thrown(t, "Failed to read result size")
            [] OTHER ->
                  IF TimedOut(threads[t].elapsed)
                  THEN Thrown(t, TimeoutMessage)
                  ELSE UNCHANGED << m_regMutex, threads >>      \* sleep_for(100 us)
    /\ UNCHANGED << swVars, hwVars, job, m_connectionsMutex, socket, processed >>

\* the clock moves on for every thread in its wait loop
FpgaTick ==
    /\ threads' = [ t \in Callers |->
                      IF threads[t].pc = "polling"
                      THEN [ threads[t] EXCEPT
                               !.elapsed = Older(@, PollStep, FPGA_OPERATION_TIMEOUT_MS) ]
                      ELSE threads[t] ]
    /\ threads' # threads
    /\ UNCHANGED << swVars, hwVars, job, m_regMutex, m_connectionsMutex, socket,
                    processed >>

\* the caller has its result
FpgaReturn(t) ==
    /\ threads[t].pc = "returned"
    /\ threads' = [ threads EXCEPT ![t] = NotCalling ]
    /\ UNCHANGED << swVars, hwVars, job, m_regMutex, m_connectionsMutex, socket,
                    processed >>

InitFpgaCall ==
    /\ m_connections = << >>
    /\ m_running = FALSE
    /\ m_accelerationEnabled = TRUE
    /\ m_activeConnections = 0
    /\ loop_pc = "none"
    /\ cleanupAge = 0
    /\ fpga \in [ connected : BOOLEAN, simulation : BOOLEAN ]
    /\ wire = << >>
    /\ resends = NoResends
    /\ reaped = { }
    /\ received = NoDatagram
    /\ HwIdle
    /\ job = NoJob
    /\ m_regMutex = { }
    /\ m_connectionsMutex = { }
    /\ threads = [ t \in Callers |-> NotCalling ]
    /\ socket = << >>
    /\ processed = << >>

NextFpgaCall ==
    \E t \in Callers :
       \/ \E operation \in FpgaOperations : \E silent \in BOOLEAN :
             FpgaCall(t, operation, silent)
       \/ FpgaConfigure(t)
       \/ FpgaPoll(t)
       \/ FpgaTick
       \/ FpgaReturn(t)

\* every thread is scheduled, the clock moves, and a thread waiting for the
\* mutex gets it at one of the moments it is free
SpecFpgaCall ==
    /\ InitFpgaCall
    /\ [][NextFpgaCall]_vars
    /\ WF_vars(FpgaTick)
    /\ \A t \in Callers : WF_vars(FpgaPoll(t)) /\ SF_vars(FpgaConfigure(t))

-----------------------------------------------------------------------------
(* SpecPair: one connection run twice on the same datagrams, once with      *)
(* acceleration enabled and a healthy accelerator, once with it disabled    *)

\* a healthy accelerator: no call fails
Healthy == [ i \in 1..FpgaCallsPerDatagram |-> TRUE ]

\* processIncomingPacket(data, length) in both runs
DeliverBoth(data, maxSent) ==
    LET accelerated == ProcessIncomingPacket(Ctx(m_connections[1], fpga), Healthy, data)
        software    == ProcessIncomingPacket(Ctx(m_connections[2], fpga), Healthy, data)
    IN  /\ WithinLimits(accelerated.h, maxSent)
        /\ WithinLimits(software.h, maxSent)
        /\ m_connections' = << accelerated.h, software.h >>
        /\ received' = [ clientKey |-> Client1, data |-> data ]
        /\ UNCHANGED << m_running, m_accelerationEnabled, m_activeConnections,
                        loop_pc, cleanupAge, fpga, wire, resends, reaped, hwVars, job,
                        thrVars >>

InitPair ==
    /\ m_accelerationEnabled = TRUE
    /\ \E connID \in RandomConnIDs :
          m_connections = << NewHandler(Client1, TRUE, connID),
                             NewHandler(Client1, FALSE, connID) >>
    /\ m_running = TRUE
    /\ m_activeConnections = 1
    /\ loop_pc = "none"
    /\ cleanupAge = 0
    /\ fpga \in [ connected : { TRUE }, simulation : BOOLEAN ]
    /\ wire = << >>
    /\ resends = NoResends
    /\ reaped = { }
    /\ received = NoDatagram
    /\ HwIdle
    /\ job = NoJob
    /\ ThrIdle

NextPair ==
    \/ \E d \in EngineDatagrams : DeliverBoth(d, MaxSent)
    \/ Advance(StepRto, MaxIdleSteps * StepRto)

SpecPair == InitPair /\ [][NextPair]_vars

-----------------------------------------------------------------------------
(* SpecThreads: the receive thread and a thread calling                      *)
(* QUICProxy::setAccelerationEnabled, step by step around m_connectionsMutex *)

MaxArrivals == 3        \* datagrams that reach the socket

ThreadDatagrams == { DgInitial, DgShort }

\* the thread outside setAccelerationEnabled
ControlIdle == [ pc |-> "idle", enabled |-> FALSE, next |-> 0 ]

\* arrival number of the newest datagram
Arrived ==
    Len(processed) + Len(socket) + (IF loop_pc \in { "lock", "process" } THEN 1 ELSE 0)

\* a peer's datagram is queued by the kernel
Arrive(clientKey, data) ==
    /\ Arrived < MaxArrivals
    /\ socket' = Append(socket, [ clientKey |-> clientKey, data |-> data,
                                  arrival |-> Arrived + 1 ])
    /\ UNCHANGED << swVars, hwVars, job, m_regMutex, m_connectionsMutex, threads,
                    processed >>

\* top of the while loop: updateConnectionStats() takes the mutex to read the
\* handlers' counters and gives it back
LockedLoopTop == Lockable(m_connectionsMutex) /\ LoopTop

\* select() reports the socket readable, recvfrom() takes the oldest datagram;
\* the thread arrives at the lock_guard
RecvFrom ==
    /\ loop_pc = "select"
    /\ socket # << >>
    /\ received' = [ clientKey |-> Head(socket).clientKey, data |-> Head(socket).data ]
    /\ threads' = [ threads EXCEPT !.buffer = Head(socket).arrival ]
    /\ socket' = Tail(socket)
    /\ loop_pc' = "lock"
    /\ UNCHANGED << m_connections, m_running, m_accelerationEnabled, m_activeConnections,
                    cleanupAge, fpga, wire, resends, reaped, hwVars, job, m_regMutex,
                    m_connectionsMutex, processed >>

\* the mutex is taken; the client's handler is found or created
FindHandler ==
    /\ loop_pc = "lock"
    /\ Lockable(m_connectionsMutex)
    /\ m_connectionsMutex' = m_connectionsMutex \cup { "receive" }
    /\ \E connID \in RandomConnIDs :
       LET found == HandlerIndex(m_connections, received.clientKey) IN
       /\ m_connections' =
             IF found = 0
             THEN Append(m_connections,
                         NewHandler(received.clientKey, m_accelerationEnabled, connID))
             ELSE m_connections
       /\ m_activeConnections' =
             IF found = 0 THEN m_activeConnections + 1 ELSE m_activeConnections
    /\ loop_pc' = "process"
    /\ UNCHANGED << m_running, m_accelerationEnabled, cleanupAge, fpga, wire, resends,
                    reaped, received, hwVars, job, m_regMutex, threads, socket,
                    processed >>

\* handler->processIncomingPacket(buffer.data(), bytesRead); the lock_guard's
\* scope, the body of the loop, ends
ProcessAndUnlock(maxSent) ==
    /\ loop_pc = "process"
    /\ LET i == HandlerIndex(m_connections, received.clientKey) IN
       \E oracle \in Oracles(m_connections[i], fpga) :
          LET x == ProcessIncomingPacket(Ctx(m_connections[i], fpga), oracle,
                                         received.data) IN
          /\ \A c \in (x.calls + 1)..FpgaCallsPerDatagram : oracle[c]
          /\ WithinLimits(x.h, maxSent)
          /\ m_connections' = [ m_connections EXCEPT ![i] = x.h ]
          /\ wire' = x.out
    /\ processed' = Append(processed, threads.buffer)
    /\ m_connectionsMutex' = m_connectionsMutex \ { "receive" }
    /\ loop_pc' = "top"
    /\ UNCHANGED << m_running, m_accelerationEnabled, m_activeConnections, cleanupAge,
                    fpga, resends, reaped, received, hwVars, job, m_regMutex, threads,
                    socket >>

\* setAccelerationEnabled(enabled) up to its lock_guard: the proxy's own flag
\* is written outside the mutex
ControlCall(enabled) ==
    /\ threads.control.pc = "idle"
    /\ m_accelerationEnabled' = enabled
    /\ threads' = [ threads EXCEPT !.control = [ pc |-> "lock", enabled |-> enabled,
                                                 next |-> 0 ] ]
    /\ UNCHANGED << m_connections, m_running, m_activeConnections, loop_pc, cleanupAge,
                    fpga, wire, resends, reaped, received, hwVars, job, m_regMutex,
                    m_connectionsMutex, socket, processed >>

ControlLock ==
    /\ threads.control.pc = "lock"
    /\ Lockable(m_connectionsMutex)
    /\ m_connectionsMutex' = m_connectionsMutex \cup { "control" }
    /\ threads' = [ threads EXCEPT !.control.pc = "update", !.control.next = 1 ]
    /\ UNCHANGED << swVars, hwVars, job, m_regMutex, socket, processed >>

\* one pass of for (auto& handler : m_connections), or the end of the loop and
\* of the lock_guard's scope
ControlUpdate ==
    /\ threads.control.pc = "update"
    /\ LET i == threads.control.next IN
       IF i <= Len(m_connections)
       THEN /\ m_connections' = [ m_connections EXCEPT
                                    ![i].m_accelerationEnabled = threads.control.enabled ]
            /\ threads' = [ threads EXCEPT !.control.next = i + 1 ]
            /\ UNCHANGED m_connectionsMutex
       ELSE /\ threads' = [ threads EXCEPT !.control = ControlIdle ]
            /\ m_connectionsMutex' = m_connectionsMutex \ { "control" }
            /\ UNCHANGED m_connections
    /\ UNCHANGED << m_running, m_accelerationEnabled, m_activeConnections, loop_pc,
                    cleanupAge, fpga, wire, resends, reaped, received, hwVars, job,
                    m_regMutex, socket, processed >>

InitThreads ==
    /\ m_connections = << >>
    /\ m_running = TRUE
    /\ m_accelerationEnabled \in BOOLEAN
    /\ m_activeConnections = 0
    /\ loop_pc = "top"
    /\ cleanupAge = 0
    /\ fpga \in [ connected : { TRUE }, simulation : BOOLEAN ]
    /\ wire = << >>
    /\ resends = NoResends
    /\ reaped = { }
    /\ received = NoDatagram
    /\ HwIdle
    /\ job = NoJob
    /\ m_regMutex = { }
    /\ m_connectionsMutex = { }
    /\ threads = [ control |-> ControlIdle, buffer |-> 0 ]
    /\ socket = << >>
    /\ processed = << >>

\* no time passes: the cleanup at the top of the loop is never due
NextThreads ==
    \/ \E k \in Clients : \E d \in ThreadDatagrams : Arrive(k, d)
    \/ LockedLoopTop
    \/ SelectTimeout
    \/ RecvFrom
    \/ FindHandler
    \/ ProcessAndUnlock(MaxArrivals)
    \/ \E b \in BOOLEAN : ControlCall(b)
    \/ ControlLock
    \/ ControlUpdate

SpecThreads == InitThreads /\ [][NextThreads]_vars

-----------------------------------------------------------------------------
(* SpecScan: one connection, its tracker and what each call puts on the     *)
(* socket, with time passing between the datagrams                          *)

\* an ACK frame in the layout sendAckPacket writes: type, largest
\* acknowledged (4), ACK delay (2), range count (1), first range (1)
AckRangePayload(largest, first_range) ==
    << 2 >> \o BE32(largest) \o << 0, 0, 0, first_range >>

\* largest acknowledged 1, first range 1: packets 0 and 1
DgAckRange == PeerShort(64, PeerDcid, 0, AckRangePayload(1, 1))

\* a 0-RTT packet is only logged: its call is updateActivity and the scan;
\* the last ACK names a number the connection never reaches
ScanDatagrams ==
    { DgInitial, DgZeroRtt, DgAckRange, DgAck(0), DgAck(MaxSent + 1) }

NextScan ==
    \/ \E d \in ScanDatagrams : HandleDatagram(d, MaxSent)
    \/ Advance(StepRto, MaxIdleSteps * StepRto)

SpecScan == Init /\ [][NextScan]_vars

-----------------------------------------------------------------------------
(* SpecSend: the calls of QUICHandler::sendPacket, one call a step, on a    *)
(* connection that has stored the DCID of the header it received            *)

\* Initial packets whose headers parsePacket accepts, by DCID length
SendHeaders ==
    { PeerLong(192, 1, Repeat(1, n), PeerScid, TRUE, 0, << 1 >>) : n \in { 8, 20, 43 } }

\* processIncomingPacket: m_destConnID = header.destConnID
StoredDcids ==
    { ParsePacket(d).header.destConnID : d \in { e \in SendHeaders : ParsePacket(e).ok } }

\* what the handlers pass to sendPacket
SendCalls ==
    { [ type |-> "INITIAL",   payload |-> InitialResponsePayload ],
      [ type |-> "HANDSHAKE", payload |-> HandshakeResponsePayload ],
      [ type |-> "ONE_RTT",   payload |-> << 30 >> ],
      [ type |-> "ONE_RTT",   payload |-> AckFramePayload(0) ] }

\* one call of sendPacket.  A call that writes beyond the buffer it allocated
\* has undefined behaviour: it may go on as if the vector had been large
\* enough, or the process may end before anything is sent.
SendCall(call, maxSent) ==
    /\ job.stage # "crashed"
    /\ \E oracle \in Oracles(Conn, fpga) :
          LET x0 == Ctx(Conn, fpga)
              x  == SendPacket(x0, oracle, call.type, call.payload)
              framed == /\ UseFpga(x0)
                        /\ ExecutePacketOperation(x0, oracle, "PACKET_FRAMING",
                                                  call.payload,
                                                  Conn.m_nextPacketNumber).success
              done == [ stage |-> "sendPacket", call |-> call, before |-> Conn,
                        framed |-> framed, calls |-> x.calls,
                        overflow |-> x.overflow, ret |-> x.ret ]
          IN  /\ \A i \in (x.calls + 1)..FpgaCallsPerDatagram : oracle[i]
              /\ WithinLimits(x.h, maxSent)
              /\ \/ /\ m_connections' = << x.h >>
                    /\ wire' = x.out
                    /\ job' = done
                 \/ /\ x.overflow
                    /\ m_connections' = m_connections
                    /\ wire' = << >>
                    /\ job' = [ done EXCEPT !.stage = "crashed" ]
    /\ UNCHANGED << m_running, m_accelerationEnabled, m_activeConnections,
                    loop_pc, cleanupAge, fpga, resends, reaped, received, hwVars,
                    thrVars >>

InitSend ==
    /\ m_accelerationEnabled \in BOOLEAN
    /\ \E connID \in RandomConnIDs : \E dcid \in StoredDcids :
          m_connections = << [ NewHandler(Client1, m_accelerationEnabled, connID)
                                 EXCEPT !.m_destConnID = dcid ] >>
    /\ m_running = TRUE
    /\ m_activeConnections = 1
    /\ loop_pc = "none"
    /\ cleanupAge = 0
    /\ fpga \in [ connected : BOOLEAN, simulation : BOOLEAN ]
    /\ wire = << >>
    /\ resends = NoResends
    /\ reaped = { }
    /\ received = NoDatagram
    /\ HwIdle
    /\ job = NoJob
    /\ ThrIdle

NextSend == \E call \in SendCalls : SendCall(call, MaxSent)

SpecSend == InitSend /\ [][NextSend]_vars

-----------------------------------------------------------------------------
(* SpecStop: QUICProxy::stop() called from the main thread while the        *)
(* receive thread runs.  m_serverSocket is a plain int that stop() writes   *)
(* and the loop reads with nothing ordering the two: it is kept in          *)
(* `threads` beside the position of stop() and the state of the descriptor. *)

ServerFd == 3           \* what socket() returned

StopIdle == [ pc |-> "idle", m_serverSocket |-> ServerFd, closed |-> FALSE ]

\* stop(): "if (!m_running.load()) return;  m_running.store(false);"
StopCall ==
    /\ threads.pc = "idle"
    /\ m_running
    /\ m_running' = FALSE
    /\ threads' = [ threads EXCEPT !.pc = "close" ]
    /\ UNCHANGED << m_connections, m_accelerationEnabled, m_activeConnections, loop_pc,
                    cleanupAge, fpga, wire, resends, reaped, received, hwVars, job,
                    m_regMutex, m_connectionsMutex, socket, processed >>

\* close(m_serverSocket);
StopClose ==
    /\ threads.pc = "close"
    /\ threads' = [ threads EXCEPT !.pc = "forget", !.closed = TRUE ]
    /\ UNCHANGED << swVars, hwVars, job, m_regMutex, m_connectionsMutex, socket,
                    processed >>

\* m_serverSocket = -1;
StopForget ==
    /\ threads.pc = "forget"
    /\ threads' = [ threads EXCEPT !.pc = "join", !.m_serverSocket = -1 ]
    /\ UNCHANGED << swVars, hwVars, job, m_regMutex, m_connectionsMutex, socket,
                    processed >>

\* m_acceptThread->join(): returns once the receive thread has left acceptLoop
StopJoin ==
    /\ threads.pc = "join"
    /\ loop_pc = "exited"
    /\ threads' = [ threads EXCEPT !.pc = "clear" ]
    /\ UNCHANGED << swVars, hwVars, job, m_regMutex, m_connectionsMutex, socket,
                    processed >>

\* { lock_guard lock(m_connectionsMutex); m_connections.clear(); } and return
StopClear ==
    /\ threads.pc = "clear"
    /\ Lockable(m_connectionsMutex)
    /\ m_connections' = << >>
    /\ threads' = [ threads EXCEPT !.pc = "returned" ]
    /\ UNCHANGED << m_running, m_accelerationEnabled, m_activeConnections, loop_pc,
                    cleanupAge, fpga, wire, resends, reaped, received, hwVars, job,
                    m_regMutex, m_connectionsMutex, socket, processed >>

\* while (m_running.load()) is false: the receive thread returns
LoopExit ==
    /\ loop_pc = "top"
    /\ ~m_running
    /\ loop_pc' = "exited"
    /\ UNCHANGED << m_connections, m_running, m_accelerationEnabled, m_activeConnections,
                    cleanupAge, fpga, wire, resends, reaped, received, hwVars, job,
                    thrVars >>

\* select() and recvfrom() on the open descriptor
SelectOnOpen(maxSent) ==
    /\ ~threads.closed
    /\ \/ SelectTimeout
       \/ Recv(Client1, DgInitial, maxSent, 1)

\* the loop uses the number of a descriptor stop() has closed: select() fails
\* with EBADF and the loop breaks
SelectOnClosed ==
    /\ threads.closed
    /\ SelectError

\* the loop reads -1 from m_serverSocket: FD_SET(-1, &readfds) and
\* FD_ISSET(-1, &readfds) index the set out of bounds.  The C library's
\* checked build ends the process there; otherwise a stray bit is written and
\* select(0, ...) times out.
SelectOnForgotten ==
    /\ threads.m_serverSocket = -1
    /\ loop_pc = "select"
    /\ loop_pc' \in { "aborted", "top" }
    /\ UNCHANGED << m_connections, m_running, m_accelerationEnabled, m_activeConnections,
                    cleanupAge, fpga, wire, resends, reaped, received, hwVars, job,
                    thrVars >>

InitStop ==
    /\ m_connections = << >>
    /\ m_running = TRUE
    /\ m_accelerationEnabled \in BOOLEAN
    /\ m_activeConnections = 0
    /\ loop_pc = "top"
    /\ cleanupAge = 0
    /\ fpga \in [ connected : { TRUE }, simulation : BOOLEAN ]
    /\ wire = << >>
    /\ resends = NoResends
    /\ reaped = { }
    /\ received = NoDatagram
    /\ HwIdle
    /\ job = NoJob
    /\ m_regMutex = { }
    /\ m_connectionsMutex = { }
    /\ threads = StopIdle
    /\ socket = << >>
    /\ processed = << >>

ReceiveThread ==
    \/ loop_pc # "aborted" /\ LoopTop
    \/ LoopExit
    \/ SelectOnOpen(MaxSentProxy)
    \/ SelectOnClosed
    \/ SelectOnForgotten

StopThread ==
    /\ loop_pc # "aborted"
    /\ \/ StopCall
       \/ StopClose
       \/ StopForget
       \/ StopJoin
       \/ StopClear

NextStop == ReceiveThread \/ StopThread

\* both threads keep running
SpecStop ==
    /\ InitStop
    /\ [][NextStop]_vars
    /\ WF_vars(ReceiveThread)
    /\ WF_vars(StopThread)

-----------------------------------------------------------------------------
(* SpecDma: the DMA controller behind FPGAInterface: the buffers its         *)
(* requests allocate and the engines its transfers take.  Both are kept in  *)
(* the record of the interface: fpga.m_buffers is the number of entries of  *)
(* BufferManager::m_buffers, fpga.m_dmaEngines the busy flags.              *)

MAX_DMA_BUFFERS == 64
MAX_DMA_ENGINES == 4

\* the allocateBuffer calls of one request on the device path:
\* executeCryptoOperation takes input, key, nonce, output and, with AAD, one
\* more; executePacketOperation takes output and, with input, one more
DmaRequests ==
    { [ operation |-> "executeCryptoOperation", aad |-> TRUE,  buffers |-> 5 ],
      [ operation |-> "executeCryptoOperation", aad |-> FALSE, buffers |-> 4 ],
      [ operation |-> "executePacketOperation", input |-> TRUE,  buffers |-> 2 ],
      [ operation |-> "executePacketOperation", input |-> FALSE, buffers |-> 1 ] }

\* BufferManager::allocateBuffer called n times: every call below the limit
\* adds an entry, a call at the limit returns nullptr
AllocateBuffers(m_buffers, n) ==
    IF m_buffers + n <= MAX_DMA_BUFFERS THEN m_buffers + n ELSE MAX_DMA_BUFFERS

\* one request on the device path, to its return.  The shared pointers go
\* out of scope at the end of the try block: Buffer::~Buffer does nothing and
\* nothing hands a buffer to BufferManager::freeBuffer.  When allocateBuffer has
\* returned nullptr the request reads through the null pointer
\* (getVirtualAddress, getPhysicalAddress): the process ends there, or goes
\* on with whatever was read.
DmaRequest(request) ==
    /\ job.stage # "crashed"
    /\ fpga.connected /\ ~fpga.simulation
    /\ \E success \in BOOLEAN :
          LET null == fpga.m_buffers + request.buffers > MAX_DMA_BUFFERS
              done == [ stage |-> "request", call |-> request, before |-> fpga,
                        success |-> success ]
          IN  /\ fpga' = [ fpga EXCEPT !.m_buffers = AllocateBuffers(@, request.buffers) ]
              /\ \/ job' = done
                 \/ null /\ job' = [ done EXCEPT !.stage = "crashed" ]
    /\ UNCHANGED << m_connections, m_running, m_accelerationEnabled,
                    m_activeConnections, loop_pc, cleanupAge, wire, resends, reaped,
                    received, hwVars, thrVars >>

\* Controller::getAvailableDMAEngine: the index of the engine whose flag the
\* compare-and-swap turned from false to true, 0 when every engine is busy
GetAvailableDMAEngine(engines) ==
    IF \E i \in 1..Len(engines) : ~engines[i]
    THEN CHOOSE i \in 1..Len(engines) :
            ~engines[i] /\ \A j \in 1..(i - 1) : engines[j]
    ELSE 0

Taken(engines, i) == IF i = 0 THEN engines ELSE [ engines EXCEPT ![i] = TRUE ]

\* Controller::transfer, blocking, with a valid buffer and size: the busy
\* flags it leaves.  transfer takes an engine; startDMATransfer takes one
\* itself; the engine transfer took is released when startDMATransfer fails
\* and when the wait ends.
TransferEngines(engines, completes) ==
    LET engine == GetAvailableDMAEngine(engines) IN
    IF engine = 0 THEN engines                  \* "No available DMA engines"
    ELSE LET held   == Taken(engines, engine)
             second == GetAvailableDMAEngine(held)
         IN  IF second = 0
             THEN engines                       \* "Failed to start DMA transfer"
             ELSE IF completes
             THEN [ Taken(held, second) EXCEPT ![engine] = FALSE ]
             ELSE Taken(held, second)           \* the wait has no timeout

\* one blocking transfer: the device reports DONE or ERROR on the channel, or
\* never does, and then the call does not return
DmaTransfer ==
    /\ job.stage \notin { "crashed", "waiting" }
    /\ fpga.connected /\ ~fpga.simulation
    /\ \E completes \in BOOLEAN :
          LET engine == GetAvailableDMAEngine(fpga.m_dmaEngines)
              started == engine # 0
                           /\ GetAvailableDMAEngine(Taken(fpga.m_dmaEngines, engine)) # 0
          IN  /\ completes \/ started
              /\ fpga' = [ fpga EXCEPT
                             !.m_dmaEngines = TransferEngines(@, completes) ]
              /\ job' = [ stage |-> IF completes THEN "transfer" ELSE "waiting",
                          before |-> fpga, success |-> started ]
    /\ UNCHANGED << m_connections, m_running, m_accelerationEnabled,
                    m_activeConnections, loop_pc, cleanupAge, wire, resends, reaped,
                    received, hwVars, thrVars >>

\* after FPGAInterface::connect(): no buffer allocated, the engines the
\* device reported, none busy
InitDma ==
    /\ m_connections = << >>
    /\ m_running = FALSE
    /\ m_accelerationEnabled = TRUE
    /\ m_activeConnections = 0
    /\ loop_pc = "none"
    /\ cleanupAge = 0
    /\ \E count \in 1..MAX_DMA_ENGINES :
          fpga = [ connected |-> TRUE, simulation |-> FALSE, m_buffers |-> 0,
                   m_dmaEngines |-> [ i \in 1..count |-> FALSE ] ]
    /\ wire = << >>
    /\ resends = NoResends
    /\ reaped = { }
    /\ received = NoDatagram
    /\ HwIdle
    /\ job = NoJob
    /\ ThrIdle

NextDma ==
    \/ \E request \in DmaRequests : DmaRequest(request)
    \/ DmaTransfer

SpecDma == InitDma /\ [][NextDma]_vars

-----------------------------------------------------------------------------
(* quic_crypto.vhd: the state machine of the crypto module and its two cores *)

MaxCoreLatency == 2      \* the clocks a core takes at most from start to done

\* the next-state process: combinational in state, start, aes_done, gcm_done.
\* data_in_valid and aad_valid are in its sensitivity list and in no branch.
CryptoNextState(state, start, aes_done, gcm_done) ==
    CASE state = "IDLE"         -> IF start THEN "INIT_AES" ELSE state
      [] state = "INIT_AES"     -> "GEN_HASHKEY"
      [] state = "GEN_HASHKEY"  -> IF aes_done THEN "PROCESS_AAD" ELSE state
      [] state = "PROCESS_AAD"  -> IF gcm_done THEN "PROCESS_DATA" ELSE state
      [] state = "PROCESS_DATA" -> IF gcm_done THEN "FINALIZE" ELSE state
      [] state = "FINALIZE"     -> "COMPLETE"
      [] state = "COMPLETE"     -> "IDLE"
      [] OTHER                  -> "IDLE"

\* aes_core or gcm_module over one rising edge. The entity declares and
\* instantiates the two components and the repository holds no architecture
\* of them: a core is what its ports say and no more. It takes up an operation
\* when it samples start = '1' with none under way, completes every operation
\* it took up within MaxCoreLatency clocks, and gives done for a completed
\* operation alone; `finishes` is whether the operation under way completes
\* on this edge.
CoreClock(core, start, done_held, finishes) ==
    IF core.busy
    THEN IF finishes \/ core.latency + 1 >= MaxCoreLatency
         THEN [ busy |-> FALSE, latency |-> 0, done |-> TRUE ]
         ELSE [ core EXCEPT !.latency = @ + 1 ]
    ELSE IF start
         THEN [ busy |-> TRUE, latency |-> 0, done |-> FALSE ]
         ELSE [ core EXCEPT !.done = done_held /\ @ ]

\* one rising edge of clk with rst = '0': the state process, with the cores
\* on the same edge. Every process reads the values from before the edge.
\* The data vectors (h_value, aes_data_in, auth_tag_out) steer nothing and are
\* left out; tag_matches is computed_tag = auth_tag_in. The PROCESS_DATA
\* branch on data_in_valid is empty. edge is the parity of the edges seen: an
\* edge that changes no register is a step all the same.
CryptoClock(start, encrypt, aad_valid, tag_matches, aes_finishes, gcm_finishes) ==
    /\ LET state == crypto.state
       IN  crypto' =
             [ crypto EXCEPT
                 !.state = CryptoNextState(state, start, crypto.aes.done,
                                           crypto.gcm.done),
                 !.done = IF state = "IDLE" THEN FALSE
                          ELSE IF state = "COMPLETE" THEN TRUE ELSE @,
                 !.data_in_ready = IF state = "IDLE" THEN ~start
                                   ELSE IF state = "PROCESS_DATA" THEN TRUE ELSE @,
                 !.aad_ready = IF state = "IDLE" THEN ~start
                               ELSE IF state = "PROCESS_AAD" THEN TRUE ELSE @,
                 !.aes_start = IF state = "INIT_AES" THEN TRUE
                               ELSE IF state = "GEN_HASHKEY" THEN FALSE ELSE @,
                 !.gcm_start = IF state = "PROCESS_AAD" /\ aad_valid THEN TRUE
                               ELSE IF state = "PROCESS_DATA" THEN FALSE ELSE @,
                 !.auth_result = IF state = "FINALIZE" /\ ~encrypt
                                 THEN tag_matches ELSE @,
                 !.aes = CoreClock(crypto.aes, crypto.aes_start, crypto.done_held,
                                   aes_finishes),
                 !.gcm = CoreClock(crypto.gcm, crypto.gcm_start, crypto.done_held,
                                   gcm_finishes),
                 !.edge = ~@ ]
    /\ UNCHANGED << swVars, streams, stream_count, current_stream_id, packet_tracker,
                    packet_index, out_buf_wrptr, hw_time, hw_out, hw_op, job,
                    thrVars >>

\* after rst = '1' is released. aes_start and gcm_start are read by the cores
\* before the state process has assigned them: they hold what the registers
\* powered up with, which the build does not fix.
InitCrypto ==
    /\ SwIdle
    /\ ProcessorIdle
    /\ \E aes_start \in BOOLEAN, gcm_start \in BOOLEAN, done_held \in BOOLEAN :
          crypto = CryptoReset(aes_start, gcm_start, done_held)
    /\ job = NoJob
    /\ ThrIdle

NextCrypto ==
    \E start \in BOOLEAN, encrypt \in BOOLEAN, aad_valid \in BOOLEAN,
       tag_matches \in BOOLEAN, aes_finishes \in BOOLEAN, gcm_finishes \in BOOLEAN :
       CryptoClock(start, encrypt, aad_valid, tag_matches, aes_finishes, gcm_finishes)

\* the clock runs: every edge is a step (edge changes), so the fairness asks
\* for edges and for no input
SpecCrypto == InitCrypto /\ [][NextCrypto]_vars /\ WF_vars(NextCrypto)

-----------------------------------------------------------------------------
(* Properties of the connection engine *)

PacketNumbers(h) == [ i \in 1..Len(h.m_sentPackets) |-> h.m_sentPackets[i].packetNumber ]

StrictlyIncreasing(s) == \A i, j \in 1..Len(s) : i < j => s[i] < s[j]

\* 0xC0: the first byte of a packet framed by the accelerator
FramedByAccelerator(p) == p.packetData[1] = 192

\* C1: for every connection, the packet numbers of the entries of the in-flight
\* tracker (m_sentPackets), in the order they were recorded, are strictly
\* increasing, whichever path (accelerator or software) recorded them.
C1_PacketNumbersIncrease ==
    \A c \in 1..Len(m_connections) : StrictlyIncreasing(PacketNumbers(m_connections[c]))

\* a tracker holding an accelerator-framed packet and a software-built one
C1_Witness ==
    \E c \in 1..Len(m_connections) :
       LET sent == m_connections[c].m_sentPackets IN
       /\ Len(sent) >= 2
       /\ \E i, j \in 1..Len(sent) :
             FramedByAccelerator(sent[i]) /\ ~FramedByAccelerator(sent[j])

\* the tracker of handler h after processFrames has handled one ACK frame
\* naming `largest`
AfterAck(h, largest) ==
    ProcessFrames(Ctx(h, fpga), [ i \in 1..FpgaCallsPerDatagram |-> TRUE ],
                  AckFramePayload(largest)).h

AckNumbers == 0..MaxSent

C2_AtMostTenResends ==
    \A k \in Clients : \A n \in DOMAIN resends[k] : resends[k][n] <= 10

\* C3: a cleanup pass of the receive loop (one that passes the 5 s gate) leaves
\* no connection in the table whose last activity is more than 30 s old.
C3_IdleReaped ==
    [][ (loop_pc = "top" /\ CleanupDue /\ loop_pc' = "select")
          => \A c \in 1..Len(m_connections') :
                m_connections'[c].m_lastActivity <= IDLE_TIMEOUT_MS ]_vars

\* a cleanup pass has just removed an idle connection and kept an active one
C3_Witness ==
    /\ reaped # { }
    /\ m_connections # << >>
    /\ \A c \in 1..Len(m_connections) : m_connections[c].m_clientKey \notin reaped

\* the client's connection holds an unacknowledged packet past the timeout
Overdue(k) ==
    \E c \in 1..Len(m_connections) :
       /\ m_connections[c].m_clientKey = k
       /\ PacketsToRetransmit(m_connections[c].m_sentPackets) # << >>

\* a packet of the client's connection has been sent again
Resent(k) == \E n \in DOMAIN resends[k] : resends[k][n] > 0

\* C4: a packet that stays unacknowledged past the retransmission timeout is
\* eventually retransmitted, also when its peer sends nothing more.
C4_OverdueIsResent == \A k \in Clients : Overdue(k) ~> Resent(k)

-----------------------------------------------------------------------------
(* Properties of the stream table *)

\* C5: the stream table never tracks more than 64 streams, whatever the
\* interleaving of framing operations and inbound STREAM frames.
C5_AtMostMaxStreams == stream_count <= 64 /\ Len(streams) <= 64

\* a full table on which a creating operation has just been attempted
C5_Witness ==
    /\ stream_count = MAX_STREAMS
    /\ \/ hw_op.op = "FRAME_DATA" /\ packet_index > MAX_STREAMS
       \/ /\ hw_op.op = "PROCESS_STREAM_FRAME"
          /\ FirstStreamWithId(streams, ReadLE32(hw_op.input, 1)) = 0

\* the step is PROCESS_STREAM_FRAME on a full table for a stream it does not track
FullTableRefusal ==
    /\ stream_count = MAX_STREAMS
    /\ hw_op'.op = "PROCESS_STREAM_FRAME"
    /\ FirstStreamWithId(streams, ReadLE32(hw_op'.input, 1)) = 0

\* bytes are a RESET_STREAM frame for stream id
IsResetStreamFor(bytes, id) ==
    /\ Len(bytes) >= 5
    /\ bytes[1] = FRAME_TYPE_RESET
    /\ ReadLE32(bytes, 1) = id

\* C6: on a full table an inbound STREAM frame for an untracked stream is
\* answered with a RESET_STREAM for that stream, and the stream records and
\* the stream count stay as they were.
C6_FullTableAnswersReset ==
    [][ FullTableRefusal
          => /\ streams' = streams
             /\ stream_count' = stream_count
             /\ \E k \in 0..Len(hw_out') :
                   IsResetStreamFor(SubSeq(hw_out', k + 1, Len(hw_out')),
                                    ReadLE32(hw_op'.input, 1)) ]_vars

\* C7: no operation lowers the received offset or the sent offset of a stream.
C7_OffsetsNeverDecrease ==
    [][ \A i \in 1..Len(streams) :
           /\ i <= Len(streams')
           /\ streams'[i].stream_id = streams[i].stream_id
           /\ streams'[i].recv_offset >= streams[i].recv_offset
           /\ streams'[i].send_offset >= streams[i].send_offset ]_vars

\* a frame ending below the received offset of its stream has been processed,
\* and a framing operation has advanced a sent offset on the full table
C7_Witness ==
    /\ hw_op.op = "PROCESS_STREAM_FRAME"
    /\ LET j == FirstStreamWithId(streams, ReadLE32(hw_op.input, 1)) IN
       /\ j # 0
       /\ streams[j].recv_offset > 2
       /\ hw_op.input[1] = 10
    /\ \E i \in 1..Len(streams) : streams[i].send_offset > Len(HwPacket)

-----------------------------------------------------------------------------
(* Properties of the codec and of the compression container *)

\* what parsePacket returned is the header and payload that were serialized
SameHeader(F, parsed) ==
    /\ parsed.ok
    /\ parsed.header.type = F.type
    /\ parsed.header.destConnID = F.destConnID
    /\ parsed.header.packetNumber = F.packetNumber
    /\ parsed.payload = F.payload
    /\ F.type # "ONE_RTT" =>
          /\ parsed.header.version = QUIC_VERSION_1
          /\ parsed.header.srcConnID = F.srcConnID

\* C9: parsing the bytes the serializer produced for a header (Initial, 0-RTT,
\* Handshake, 1-RTT) yields the packet type, version, connection IDs, packet
\* number and payload that were serialized.
C9_ParseInvertsSerialize == job.stage = "parsed" => SameHeader(job.F, job.parsed)

\* C10: compressing a buffer succeeds, and decompressing the result returns
\* the buffer.
C10_DecompressInvertsCompress ==
    /\ job.stage = "compressed" => job.c.success
    /\ job.stage = "decompressed" => job.d.success /\ job.d.data = job.B

-----------------------------------------------------------------------------
(* Properties of the connection table and of datagram validation *)

\* what parsePacket makes of the bytes is an Initial packet of version 1
WellFormedInitial(data) ==
    LET p == ParsePacket(data) IN
    p.ok /\ p.header.type = "INITIAL" /\ p.header.version = QUIC_VERSION_1

\* C11: the receive loop adds a connection to the table only for a datagram
\* that is a well-formed Initial of a recognized version; any other datagram
\* from an unknown sender leaves the table as it is.
C11_OnlyInitialCreates ==
    [][ Len(m_connections') > Len(m_connections)
          => WellFormedInitial(received'.data) ]_vars

\* C12: no two connections of the table have the same destination connection
\* ID (the byte string m_destConnID, once it is stored).
C12_OneConnectionPerDcid ==
    \A i, j \in 1..Len(m_connections) :
       (i # j /\ m_connections[i].m_destConnID # << >>)
          => m_connections[i].m_destConnID # m_connections[j].m_destConnID

\* the step left the connection as it was, but for the activity time
\* processIncomingPacket refreshes first, and sent nothing
Dropped ==
    /\ m_connections' = << [ Conn EXCEPT !.m_lastActivity = 0 ] >>
    /\ wire' = << >>

\* the datagram parses, and its destination connection ID is neither the
\* connection's own ID nor the one it stored from its first datagram
ForeignDcid(h, data) ==
    LET p == ParsePacket(data) IN
    /\ p.ok
    /\ h.m_destConnID # << >>
    /\ p.header.destConnID # h.m_destConnID
    /\ p.header.destConnID # h.m_srcConnID

\* C13: a datagram whose destination connection ID is not the connection's is
\* dropped: none of its frames is processed and nothing is sent.
C13_MismatchDropped ==
    [][ \A d \in ValidateDatagrams :
          (ForeignDcid(Conn, d) /\ HandleDatagram(d, MaxSent)) => Dropped ]_vars

\* C14: when parsePacket fails on a received datagram, the sender's connection
\* is in the table and active afterwards, nothing is sent, and the tracker,
\* the next packet number and the stored connection IDs of a connection that
\* existed before are what they were.
C14_ParseFailureLeavesConnection ==
    [][ \A k \in Clients : \A d \in ProxyDatagrams :
          (~ParsePacket(d).ok /\ Recv(k, d, MaxSentProxy, 1))
             => LET i == HandlerIndex(m_connections, k)
                    j == HandlerIndex(m_connections', k)
                IN  /\ j # 0
                    /\ IsActive(m_connections'[j])
                    /\ wire' = << >>
                    /\ i # 0 =>
                          /\ j = i
                          /\ m_connections'[j].m_sentPackets = m_connections[i].m_sentPackets
                          /\ m_connections'[j].m_nextPacketNumber
                                = m_connections[i].m_nextPacketNumber
                          /\ m_connections'[j].m_srcConnID = m_connections[i].m_srcConnID
                          /\ m_connections'[j].m_destConnID = m_connections[i].m_destConnID
      ]_vars

\* a datagram that does not parse has just been received on a connection that
\* holds a packet due for retransmission and a stored connection ID
C14_Witness ==
    /\ received # NoDatagram
    /\ ~ParsePacket(received.data).ok
    /\ received.data[1] >= 128 /\ Len(received.data) > 4
    /\ wire = << >>
    /\ \E c \in 1..Len(m_connections) :
          /\ m_connections[c].m_clientKey = received.clientKey
          /\ m_connections[c].m_destConnID # << >>
          /\ PacketsToRetransmit(m_connections[c].m_sentPackets) # << >>

\* a short header (bit 7 clear) whose bits 4-0 are not all zero
ReservedBitsSet(data) ==
    Len(data) > 0 /\ At(data, 0) < 128 /\ At(data, 0) % 32 # 0

\* C15: a short-header datagram with a reserved bit set is dropped: none of its
\* frames is processed, nothing is sent, the connection is as it was.
C15_ReservedBitsDropped ==
    [][ \A d \in ValidateDatagrams :
          (ReservedBitsSet(d) /\ HandleDatagram(d, MaxSent)) => Dropped ]_vars

\* the frame types processFrames has a case for
KnownFrameTypes == { 0, 1, 2, 3, 6 } \cup 8..15

\* processFrames, skipping PADDING and PING, comes to a type byte it has no
\* case for
MeetsUnknownFrame(payload) ==
    \E i \in 1..Len(payload) :
       /\ payload[i] \notin KnownFrameTypes
       /\ \A j \in 1..(i - 1) : payload[j] \in { 0, 1 }

\* the handler after a further datagram, an ACK frame for packet 0, with no
\* accelerator failure
AfterLaterAck(h) ==
    ProcessIncomingPacket(Ctx(h, fpga), [ i \in 1..FpgaCallsPerDatagram |-> TRUE ],
                          DgAck(0))

\* C16: a datagram in which processFrames meets an unknown frame type has none
\* of its remaining bytes processed as frames (the ACK frame behind the unknown
\* one acknowledges nothing), the connection stays active, and a later datagram
\* is processed (its ACK frame acknowledges the packet).
C16_UnknownFrameEndsDatagram ==
    [][ \A d \in ValidateDatagrams :
          ( /\ ParsePacket(d).ok
            /\ ParsePacket(d).header.type = "ONE_RTT"
            /\ MeetsUnknownFrame(ParsePacket(d).payload)
            /\ HandleDatagram(d, MaxSent) )
             => /\ \A i \in 1..Len(Conn.m_sentPackets) :
                      Conn'.m_sentPackets[i].acknowledged
                         = Conn.m_sentPackets[i].acknowledged
                /\ IsActive(Conn')
                /\ LET later == AfterLaterAck(Conn')
                       sent  == later.h.m_sentPackets
                   IN  /\ later.ret
                       /\ \A i \in 1..Len(sent) :
                             (i = FirstIndexOf(sent, 0)) => sent[i].acknowledged
      ]_vars

\* a datagram with an unknown frame and an ACK for packet 0 behind it has been
\* handled, packet 0 is in the tracker unacknowledged, and the answer to the
\* datagram was recorded behind it
C16_Witness ==
    /\ received.data \in { DgUnknownFrame, DgPingUnknownFrame }
    /\ Len(Conn.m_sentPackets) >= 2
    /\ Conn.m_sentPackets[1].packetNumber = 0
    /\ ~Conn.m_sentPackets[1].acknowledged

\* a long header whose destination or source connection-ID length byte is
\* above 20
CidLengthOver20(data) ==
    /\ Len(data) > 5
    /\ At(data, 0) >= 128
    /\ \/ At(data, 5) > 20
       \/ /\ Len(data) > 6 + At(data, 5)
          /\ At(data, 6 + At(data, 5)) > 20

\* C17: a long-header datagram with a connection-ID length above 20 is
\* rejected: no packet handler runs and none of its fields is stored.
C17_LongCidRejected ==
    [][ \A d \in ValidateDatagrams :
          (CidLengthOver20(d) /\ HandleDatagram(d, MaxSent)) => Dropped ]_vars

-----------------------------------------------------------------------------
(* Properties of the life of a stream *)

C19_TerminalStatesStay ==
    [][ \A i \in 1..Len(streams) :
          streams[i].state \in { "STREAM_CLOSED", "STREAM_RESET" }
             => /\ i <= Len(streams')
                /\ streams'[i].stream_id = streams[i].stream_id
                /\ streams'[i].state = streams[i].state ]_vars

\* a closed stream on which a framing operation has sent data since and for
\* which a STREAM frame without FIN has just been processed
C19_Witness ==
    /\ hw_op.op = "PROCESS_PAYLOAD"
    /\ \E f \in StreamInputs :
          /\ f.type % 2 = 0
          /\ hw_op.input = StreamFrameOf(f)
          /\ LET k == FirstStreamWithId(streams, f.id) IN
             /\ k # 0
             /\ streams[k].state = "STREAM_CLOSED"
             /\ streams[k].send_offset > 0

\* C20: a RESET_STREAM frame received for a tracked open stream leaves the
\* stream in state Reset with its received offset at the frame's final size.
C20_ResetStreamResets ==
    [][ \A f \in ResetInputs : \A ack_receive \in BOOLEAN :
          LET j == FirstStreamWithId(streams, f.id) IN
          ( /\ HwPayloadOperation(ResetFrameOf(f), ack_receive, 0)
            /\ j # 0
            /\ streams[j].state = "STREAM_OPEN" )
            => /\ streams'[j].state = "STREAM_RESET"
               /\ streams'[j].recv_offset = f.final_size ]_vars

-----------------------------------------------------------------------------
(* Properties of what the engine sends *)

\* C21: the Initial packet sent in answer to a peer's first Initial carries,
\* as its destination connection ID, the source connection ID of the peer's
\* Initial.
C21_InitialAnswersPeerScid ==
    [][ LET p == ParsePacket(received'.data) IN
        ( /\ Conn.m_destConnID = << >>                 \* nothing parsed before
          /\ received'.data # << >>
          /\ p.ok
          /\ p.header.type = "INITIAL" )
          => \A i \in 1..Len(wire') :
                LET q == ParsePacket(wire'[i]) IN
                (q.ok /\ q.header.type = "INITIAL")
                   => q.header.destConnID = p.header.srcConnID ]_vars

\* C22: every Initial packet the engine sends is at least 1200 bytes long.
C22_InitialAtLeast1200 ==
    \A i \in 1..Len(wire) :
       (At(wire[i], 0) >= 128 /\ LongType(At(wire[i], 0)) = "INITIAL")
          => Len(wire[i]) >= MIN_INITIAL_SIZE

\* the numbers of the tracked packets not yet acknowledged
InFlightNumbers(h) ==
    { h.m_sentPackets[i].packetNumber :
        i \in { j \in 1..Len(h.m_sentPackets) : ~h.m_sentPackets[j].acknowledged } }

\* C24: on the same inbound datagrams, the run with acceleration enabled and
\* the run with acceleration disabled have the same next packet number and the
\* same set of tracked in-flight packet numbers.
C24_AcceleratedMatchesSoftware ==
    /\ m_connections[1].m_nextPacketNumber = m_connections[2].m_nextPacketNumber
    /\ InFlightNumbers(m_connections[1]) = InFlightNumbers(m_connections[2])

-----------------------------------------------------------------------------
(* Properties of the retransmission scan and of ACK processing *)

\* C27: a retransmission scan resends every tracked packet that is
\* unacknowledged and older than the 500 ms timeout, once, and sets its send
\* time to the scan time; a packet that is acknowledged or younger is not
\* resent and keeps its entry.
C27_ScanResendsOverdue ==
    [][ HandleDatagram(DgZeroRtt, MaxSent) =>
          LET before == m_connections[1].m_sentPackets
              after  == m_connections'[1].m_sentPackets
              due    == { i \in 1..Len(before) :
                            /\ ~before[i].acknowledged
                            /\ before[i].sentTime > RETRANSMIT_TIMEOUT_MS }
          IN  /\ Len(after) = Len(before)
              /\ Len(wire') = Cardinality(due)
              /\ \A i \in 1..Len(before) :
                    IF i \in due
                    THEN /\ after[i] = [ before[i] EXCEPT !.sentTime = 0 ]
                         /\ \E k \in 1..Len(wire') : wire'[k] = before[i].packetData
                    ELSE /\ after[i] = before[i]
                         /\ \A k \in 1..Len(wire') : wire'[k] # before[i].packetData
      ]_vars

\* a scan has just resent one packet and passed over an acknowledged packet
\* older than the timeout
C27_Witness ==
    /\ received.data = DgZeroRtt
    /\ Len(wire) = 1
    /\ \E i, j \in 1..Len(Conn.m_sentPackets) :
          /\ Conn.m_sentPackets[i].acknowledged
          /\ Conn.m_sentPackets[i].sentTime > RETRANSMIT_TIMEOUT_MS
          /\ ~Conn.m_sentPackets[j].acknowledged
          /\ Conn.m_sentPackets[j].sentTime = 0
          /\ Conn.m_sentPackets[j].packetData = wire[1]

\* C28: within one retransmission scan the packets are resent in ascending
\* packet-number order.
C28_ScanResendsInOrder ==
    [][ HandleDatagram(DgZeroRtt, MaxSent) =>
          LET before == m_connections[1].m_sentPackets
              numberOf(bytes) ==
                 before[CHOOSE i \in 1..Len(before) : before[i].packetData = bytes]
                    .packetNumber
          IN  \A a, b \in 1..Len(wire') :
                 a < b => numberOf(wire'[a]) < numberOf(wire'[b])
      ]_vars

\* one scan has just resent two packets
C28_Witness ==
    /\ received.data = DgZeroRtt
    /\ Len(wire) = 2
    /\ \A i \in 1..Len(Conn.m_sentPackets) : Conn.m_sentPackets[i].sentTime = 0

\* C29: after an ACK frame with largest acknowledged L and first range R is
\* processed, every tracked packet whose number lies in [L-R, L] is marked
\* acknowledged.
C29_AckCoversRange ==
    [][ HandleDatagram(DgAckRange, MaxSent) =>
          LET before == m_connections[1].m_sentPackets
              after  == m_connections'[1].m_sentPackets
          IN  \A i \in 1..Len(before) :
                 before[i].packetNumber \in 0..1 => after[i].acknowledged
      ]_vars

-----------------------------------------------------------------------------
(* Properties of the trackers and of outbound framing *)

\* C31: a packet in flight stays in the tracker, unacknowledged, until it is
\* acknowledged or its retry cap is reached: framing a later packet leaves
\* every unacknowledged entry below the cap where it is.
C31_InFlightRetained ==
    [][ hw_op'.op = "FRAME_DATA" =>
          \A i \in 1..Len(packet_tracker) :
             (~packet_tracker[i].acked /\ packet_tracker[i].retx_count < 10)
                => \E j \in 1..Len(packet_tracker') :
                      packet_tracker'[j] = packet_tracker[i] ]_vars

\* C32: outbound framing sends only on a stream that is open: the send offset
\* of a closed or reset stream is the same after a framing operation as
\* before it.
C32_ClosedStreamNotSentOn ==
    [][ hw_op'.op = "FRAME_DATA" =>
          \A i \in 1..Len(streams) :
             streams[i].state \in { "STREAM_CLOSED", "STREAM_RESET" }
                => streams'[i].send_offset = streams[i].send_offset ]_vars

\* what one call of sendPacket added to the tracker
SentByCall == m_connections[1].m_sentPackets[Len(m_connections[1].m_sentPackets)]

C34_FramedEqualsAssembled ==
    (job.stage = "sendPacket" /\ job.framed) =>
       wire = << AssemblePacket(job.call.type, job.before.m_destConnID,
                                job.before.m_srcConnID,
                                job.before.m_nextPacketNumber, job.call.payload) >>

\* C35: assembling a packet in software never writes beyond the end of the
\* buffer sendPacket allocated, whatever DCID the connection stored from a
\* received header.
C35_AssemblyWithinBuffer ==
    job.stage \in { "sendPacket", "crashed" } => ~job.overflow

-----------------------------------------------------------------------------
(* Properties of the threads *)

C25_ProcessingIsSerialized ==
    /\ processed = [ n \in 1..Len(processed) |-> n ]
    /\ ~(loop_pc = "process" /\ threads.control.pc = "update")
    /\ loop_pc = "process" => m_connectionsMutex = { "receive" }
    /\ threads.control.pc = "update" => m_connectionsMutex = { "control" }

\* a datagram is being processed while setAccelerationEnabled waits for the
\* mutex, and an earlier datagram has been processed
C25_Witness ==
    /\ loop_pc = "process"
    /\ threads.control.pc = "lock"
    /\ Len(processed) >= 1
    /\ Len(m_connections) >= 1

\* C36: a call of stop() on a running proxy terminates: the receive thread
\* leaves its loop and is joined, and stop() returns with the connection
\* table empty.
C36_StopTerminates ==
    (threads.pc = "close")
       ~> (threads.pc = "returned" /\ loop_pc = "exited" /\ m_connections = << >>)

\* C37: whenever the connection table's lock is not held, the
\* active-connections counter is the number of connections in the table.
C37_CounterMatchesTable ==
    m_connectionsMutex = { } => m_activeConnections = Len(m_connections)

-----------------------------------------------------------------------------
(* Properties of the DMA controller *)

\* C38: every DMA buffer allocated for an accelerator request is released by
\* the time the request returns: the number of allocated buffers after the
\* call is the number before it.
C38_BuffersReleased ==
    job.stage = "request" => fpga.m_buffers = job.before.m_buffers

\* C39: after a blocking DMA transfer has returned, every engine it marked
\* busy is free again: the busy flags are what they were before the call.
C39_EnginesReleased ==
    job.stage = "transfer" => fpga.m_dmaEngines = job.before.m_dmaEngines


-----------------------------------------------------------------------------
(* Properties of the crypto module *)

\* C40: every operation started on the crypto module, the state machine
\* having left IDLE for INIT_AES on start = '1', leads to done = '1' with the
\* state machine back in IDLE, the two cores completing every operation they
\* take up, whether or not aad_valid is high while the state is PROCESS_AAD
C40_CryptoCompletes ==
    (crypto.state = "INIT_AES") ~> (crypto.state = "IDLE" /\ crypto.done)

====
